---------------------------- MODULE Spec2Model ----------------------------
(***************************************************************************)
(* A model of the port-based composition layer of the layout generator:    *)
(* the cell-decorated component factories (triangle, heater,               *)
(* straight_heater, coupler90, fiber_array) and the 180 degree bend        *)
(* router get_routes_bend180.                                              *)
(*                                                                         *)
(* Lengths are integers on a layout grid; every parameter set below holds  *)
(* even values, so the source's "/ 2" is exact as "\div 2".  Angles are    *)
(* degrees, multiples of 90.  A Python dict is a sequence of [k, v]        *)
(* records with pairwise distinct keys, in insertion order.  A Component   *)
(* lives in the heap comps and is named by its index there; a reference is *)
(* a value [uid, child, origin, rotation] naming its child by index.       *)
(***************************************************************************)
EXTENDS Integers, Sequences, FiniteSets, TLC

VARIABLES
    comps,    \* the heap of built Components, by instance id 1..Len(comps)
    cache,    \* the factory cache of the cell decorator: dict key -> id
    uid,      \* the number of references created so far
    top,      \* the enclosing Component c of the calling script
    routes,   \* the Routes value held by the calling script, or NoRoutes
    last,     \* the last call: what was called, with what, and how it ended
    hist,     \* the calls made so far, in order, with what each returned
    ncalls,   \* the number of calls made so far
    fixture,  \* the port collection the calling script routes from
    disk,     \* the file at gdspath, or NoFile
    sim       \* the Simulation held by the calling script, or NoSim

vars == <<comps, cache, uid, top, routes, last, hist, ncalls, fixture, disk,
          sim>>

(***************************************************************************)
(* Bounds of the model.                                                    *)
(***************************************************************************)
MaxCalls == 3
MaxPorts == 2

(***************************************************************************)
(* Sequences and dicts.                                                    *)
(***************************************************************************)
Range(s) == {s[i] : i \in 1..Len(s)}

SeqsUpTo(S, n) == UNION {[1..k -> S] : k \in 0..n}

NoDup(s) == \A i, j \in 1..Len(s) : s[i] = s[j] => i = j

Keys(d) == {d[i].k : i \in 1..Len(d)}

KeySeq(d) == [i \in 1..Len(d) |-> d[i].k]

Values(d) == [i \in 1..Len(d) |-> d[i].v]

Get(d, key) == (CHOOSE i \in 1..Len(d) : d[i].k = key)

DictGet(d, key) == d[Get(d, key)].v

DictSet(d, key, val) ==
    IF key \in Keys(d)
    THEN [d EXCEPT ![Get(d, key)] = [k |-> key, v |-> val]]
    ELSE Append(d, [k |-> key, v |-> val])

(***************************************************************************)
(* Rigid transforms on the grid.                                           *)
(***************************************************************************)
Angles == {0, 90, 180, 270}

Add(p, q) == <<p[1] + q[1], p[2] + q[2]>>

Sub(p, q) == <<p[1] - q[1], p[2] - q[2]>>

Rot(p, a) ==
    CASE a % 360 = 0   -> p
      [] a % 360 = 90  -> <<-p[2], p[1]>>
      [] a % 360 = 180 -> <<-p[1], -p[2]>>
      [] a % 360 = 270 -> <<p[2], -p[1]>>

\* Twice the signed area of a polygon (shoelace formula).
RECURSIVE Shoelace(_, _)
Shoelace(pts, i) ==
    IF i > Len(pts) THEN 0
    ELSE LET p == pts[i]
             q == pts[(i % Len(pts)) + 1]
         IN  p[1] * q[2] - q[1] * p[2] + Shoelace(pts, i + 1)

Area2(pts) == LET a == Shoelace(pts, 1) IN IF a < 0 THEN -a ELSE a


(***************************************************************************)
(* Ports, references and Components.                                       *)
(***************************************************************************)
Port(name, midpoint, orientation, width, layer, port_type) ==
    [name |-> name, midpoint |-> midpoint, orientation |-> orientation % 360,
     width |-> width, layer |-> layer, port_type |-> port_type]

\* A value that is not a Port (None, a string, ...), where a list of ports
\* holds one.
NotAPort ==
    [name |-> "", midpoint |-> <<0, 0>>, orientation |-> 0, width |-> 0,
     layer |-> <<0, 0>>, port_type |-> "none"]

IsPort(p) == p.port_type # "none"

\* Component(): an empty Component under construction.  gone holds the
\* references absorbed so far (the Python objects outlive the absorb), err
\* the exception a call on it raised, if any, and absorbed what each absorb
\* saw: the flattened polygon set before and after it, the children left
\* and the ports of the reference.
Component ==
    [polygons |-> <<>>, refs |-> <<>>, gone |-> <<>>, ports |-> <<>>,
     settings |-> <<>>, length |-> 0, err |-> "ok", absorbed |-> <<>>]

add_polygon(c, points, layer) ==
    [c EXCEPT !.polygons = Append(@, [points |-> points, layer |-> layer])]

\* component.ref(): a new reference to the Component with instance id child.
ref(child, id) ==
    [uid |-> id, child |-> child, origin |-> <<0, 0>>, rotation |-> 0]

\* c.add_ref(component), c << component, c.add(reference).
add_ref(c, r) == [c EXCEPT !.refs = Append(@, r)]

HasRef(c, id) == \E i \in 1..Len(c.refs) : c.refs[i].uid = id

\* The reference object with this uid, placed in c or absorbed into it.
RefOf(c, id) ==
    LET all == c.refs \o c.gone
    IN  all[CHOOSE i \in 1..Len(all) : all[i].uid = id]

\* A change to a reference object is seen wherever the object is held.
UpdateRef(c, id, r) ==
    [c EXCEPT !.refs = [i \in 1..Len(@) |-> IF @[i].uid = id THEN r ELSE @[i]],
              !.gone = [i \in 1..Len(@) |-> IF @[i].uid = id THEN r ELSE @[i]]]

Transform(r, p) == Add(Rot(p, r.rotation), r.origin)

TransformPort(r, p) ==
    [p EXCEPT !.midpoint = Transform(r, p.midpoint),
              !.orientation = (p.orientation + r.rotation) % 360]

\* reference.ports: the child's ports, copied and carried by the
\* reference's transform.  heap is the heap of Components.
RefPorts(heap, r) ==
    LET ps == heap[r.child].ports
    IN  [i \in 1..Len(ps) |-> [k |-> ps[i].k, v |-> TransformPort(r, ps[i].v)]]

\* reference.move / movex / movey.
move(r, d) == [r EXCEPT !.origin = Add(@, d)]

\* reference.rotate(angle, center).
rotate(r, angle, center) ==
    [r EXCEPT !.rotation = (@ + angle) % 360,
              !.origin = Add(Rot(Sub(@, center), angle), center)]

CanConnect(heap, r, name, destination) ==
    name \in Keys(RefPorts(heap, r)) /\ IsPort(destination)

\* reference.connect(port, destination): turn the reference about its port
\* until the port faces the destination, then move the port onto it.
connect(heap, r, name, destination) ==
    LET p == DictGet(RefPorts(heap, r), name)
        turned == rotate(r, 180 + destination.orientation - p.orientation,
                         p.midpoint)
    IN  move(turned, Sub(destination.midpoint, p.midpoint))

TransformPolygon(r, poly) ==
    [poly EXCEPT !.points = [i \in 1..Len(@) |-> Transform(r, @[i])]]

TransformAll(r, polys) ==
    [i \in 1..Len(polys) |-> TransformPolygon(r, polys[i])]

\* The flattened polygons of a Component: its own polygons, then those of
\* its references, each carried by the reference's transform.
RECURSIVE Flatten(_, _)
RECURSIVE FlattenRefs(_, _, _)
Flatten(heap, c) == c.polygons \o FlattenRefs(heap, c.refs, 1)

FlattenRefs(heap, rs, i) ==
    IF i > Len(rs) THEN <<>>
    ELSE TransformAll(rs[i], Flatten(heap, heap[rs[i].child]))
         \o FlattenRefs(heap, rs, i + 1)

\* The flattened polygon set.
Flat(heap, c) == Range(Flatten(heap, c))

CanAbsorb(c, id) == HasRef(c, id)

\* c.absorb(reference): bake the reference's polygons into c and drop the
\* reference from c's children.  The callers read reference.ports after
\* the absorb and add the ports themselves: absorb adds no port to c.
absorb(heap, c, id) ==
    LET r == RefOf(c, id)
        done == [c EXCEPT
                    !.polygons = @ \o TransformAll(r, Flatten(heap, heap[r.child])),
                    !.refs = SelectSeq(@, LAMBDA x : x.uid # id),
                    !.gone = Append(@, r)]
    IN  IF c.err # "ok" THEN c
        ELSE IF ~CanAbsorb(c, id) THEN [c EXCEPT !.err = "ValueError"]
        ELSE [done EXCEPT !.absorbed =
                 Append(@, [uid |-> id, before |-> Flat(heap, c),
                            after |-> Flat(heap, done),
                            children |-> {x.uid : x \in Range(done.refs)},
                            ports |-> RefPorts(heap, r)])]

\* c.add_port(name, port=port): a copy of port under the given name; a name
\* c already has is an error and leaves c.ports as it was.
add_port(c, name, port) ==
    IF c.err # "ok" THEN c
    ELSE IF name \in Keys(c.ports) THEN [c EXCEPT !.err = "DuplicateNameError"]
    ELSE [c EXCEPT !.ports =
             Append(@, [k |-> name, v |-> [port EXCEPT !.name = name]])]

(***************************************************************************)
(* The world a call runs in: the heap, the factory cache and the uid       *)
(* counter, with the call's outcome (err, and ret: the instance returned). *)
(***************************************************************************)
World(h, ca, u) == [comps |-> h, cache |-> ca, uid |-> u, err |-> "ok", ret |-> 0]

Ok(w) == w.err = "ok"

Raise(w, e) == [w EXCEPT !.err = e, !.ret = 0]

\* return c: the finished Component becomes an instance of the heap; an
\* exception raised while building it leaves no instance.
Return(w, c) ==
    IF ~Ok(w) THEN w
    ELSE IF c.err # "ok" THEN Raise(w, c.err)
    ELSE [w EXCEPT !.comps = Append(@, [c EXCEPT !.gone = <<>>]),
                   !.ret = Len(w.comps) + 1]

\* The cell decorator: a call whose key is cached returns the cached
\* instance; a call that built its Component caches it under its key.
Cached(w, key) == key \in Keys(w.cache)

CacheHit(w, key) == [w EXCEPT !.ret = DictGet(w.cache, key)]

CacheStore(w, key) ==
    IF Ok(w) THEN [w EXCEPT !.cache = DictSet(@, key, w.ret)] ELSE w

(***************************************************************************)
(* Primitive factories the sources import.                                 *)
(***************************************************************************)
WG == <<1, 0>>

\* The outline of a bend of the given angle as a rectilinear path of width
\* 2h on the grid, from W0 at the origin.
BendPoints(angle, radius, h) ==
    IF angle = 180
    THEN <<<<0, -h>>, <<radius + h, -h>>, <<radius + h, 2 * radius + h>>,
           <<0, 2 * radius + h>>, <<0, 2 * radius - h>>,
           <<radius - h, 2 * radius - h>>, <<radius - h, h>>, <<0, h>>>>
    ELSE <<<<0, -h>>, <<radius + h, -h>>, <<radius + h, radius>>,
           <<radius - h, radius>>, <<radius - h, h>>, <<0, h>>>>

BendBody(w, f, angle, radius) ==
    LET c0 == add_polygon(Component, BendPoints(angle, radius, 1), WG)
        c1 == add_port(c0, "W0", Port("W0", <<0, 0>>, 180, 2, WG, "optical"))
        c2 == IF angle = 180
              THEN add_port(c1, "W1",
                            Port("W1", <<0, 2 * radius>>, 180, 2, WG, "optical"))
              ELSE add_port(c1, "N0",
                            Port("N0", <<radius, radius>>, 90, 2, WG, "optical"))
        c3 == [c2 EXCEPT !.length =
                  IF f = "bend_euler" THEN (angle \div 90) * 2 * radius
                  ELSE ((angle \div 90) * 3 * radius) \div 2]
    IN  IF radius < 0 THEN Raise(w, "InvalidParameterError")
        ELSE Return(w, c3)

\* bend_euler(angle, radius) and bend_circular(angle, radius), f naming
\* which: cell-decorated primitive factories.
BendFactory(w, f, angle, radius) ==
    LET key == [f |-> f, args |-> [angle |-> angle, radius |-> radius]]
    IN  IF ~Ok(w) THEN w
        ELSE IF Cached(w, key) THEN CacheHit(w, key)
        ELSE CacheStore(BendBody(w, f, angle, radius), key)

HEATER == <<47, 0>>

WGCLAD == <<111, 0>>

DEEPTRENCH == <<7, 0>>

\* The width and the bend radius of the strip cross-section, in grid units.
StripWidth == 2

StripRadius == 4

\* A rectangle of the given length and width along x from the origin, with
\* ports W0 and E0 at its ends.
RectBody(w, length, width, layer, port_type) ==
    LET a == width \div 2
        c0 == add_polygon(Component,
                          <<<<0, -a>>, <<length, -a>>, <<length, a>>, <<0, a>>>>,
                          layer)
        c1 == add_port(c0, "W0", Port("W0", <<0, 0>>, 180, width, layer, port_type))
        c2 == add_port(c1, "E0", Port("E0", <<length, 0>>, 0, width, layer, port_type))
    IN  IF length < 0 \/ width < 0 THEN Raise(w, "InvalidParameterError")
        ELSE Return(w, [c2 EXCEPT !.length = length])

\* hline(length, width, layer): a cell-decorated primitive factory.
hline(w, length, width, layer) ==
    LET key == [f |-> "hline",
                args |-> [length |-> length, width |-> width, layer |-> layer]]
    IN  IF ~Ok(w) THEN w
        ELSE IF Cached(w, key) THEN CacheHit(w, key)
        ELSE CacheStore(RectBody(w, length, width, layer, "optical"), key)

\* straight(length, cross_section=strip): a cell-decorated primitive factory.
straight(w, length) ==
    LET key == [f |-> "straight", args |-> [length |-> length]]
    IN  IF ~Ok(w) THEN w
        ELSE IF Cached(w, key) THEN CacheHit(w, key)
        ELSE CacheStore(RectBody(w, length, StripWidth, WG, "optical"), key)

\* circle(radius, layer): a cell-decorated primitive factory; the outline is
\* taken at its four axis points.
circle(w, radius, layer) ==
    LET key == [f |-> "circle", args |-> [radius |-> radius, layer |-> layer]]
        c == add_polygon(Component,
                         <<<<radius, 0>>, <<0, radius>>, <<-radius, 0>>,
                           <<0, -radius>>>>, layer)
    IN  IF ~Ok(w) THEN w
        ELSE IF Cached(w, key) THEN CacheHit(w, key)
        ELSE IF radius < 0 THEN Raise(w, "InvalidParameterError")
        ELSE CacheStore(Return(w, c), key)

(***************************************************************************)
(* components/triangle.py                                                  *)
(***************************************************************************)
TriangleBody(w, x, xtop, y, layer) ==
    LET points == <<<<0, 0>>, <<x, 0>>, <<xtop, y>>, <<0, y>>>>
    IN  Return(w, add_polygon(Component, points, layer))

\* A slip: the factory without its cell decorator.
TriangleUndecorated(w, x, xtop, y, layer) ==
    IF ~Ok(w) THEN w ELSE TriangleBody(w, x, xtop, y, layer)

\* @cell def triangle(x, xtop, y, layer)
triangle(w, x, xtop, y, layer) ==
    LET key == [f |-> "triangle",
                args |-> [x |-> x, xtop |-> xtop, y |-> y, layer |-> layer]]
    IN  IF ~Ok(w) THEN w
        ELSE IF Cached(w, key) THEN CacheHit(w, key)
        ELSE CacheStore(TriangleBody(w, x, xtop, y, layer), key)

(***************************************************************************)
(* components/straight_heater.py: heater                                   *)
(***************************************************************************)
\* for p in c.ports.values(): p.layer = layer_heater; p.port_type = "heater"
Retag(ports, layer_heater) ==
    [i \in 1..Len(ports) |->
        [ports[i] EXCEPT !.v.layer = layer_heater, !.v.port_type = "heater"]]

\* A slip: c.ports = the hline Component's own port dict, so that the
\* retagging writes into the cached hline.
HeaterBodyRetagChild(w, length, width, layer_heater) ==
    LET wh == hline(w, length, width, layer_heater)
        w1 == [wh EXCEPT !.uid = @ + 1]
        w2 == [w1 EXCEPT !.comps[wh.ret].ports = Retag(@, layer_heater)]
        _ref == ref(wh.ret, wh.uid + 1)
        c1 == add_ref(Component, _ref)
        c2 == [c1 EXCEPT !.ports = w2.comps[wh.ret].ports]
    IN  IF ~Ok(wh) THEN wh
        ELSE Return(w2, absorb(w2.comps, c2, _ref.uid))

HeaterBody(w, length, width, layer_heater) ==
    LET wh == hline(w, length, width, layer_heater)
        w1 == [wh EXCEPT !.uid = @ + 1]
        _ref == ref(wh.ret, wh.uid + 1)
        c1 == add_ref(Component, _ref)
        c2 == [c1 EXCEPT !.ports = RefPorts(w1.comps, _ref)]
        c3 == [c2 EXCEPT !.ports = Retag(@, layer_heater)]
    IN  IF ~Ok(wh) THEN wh
        ELSE Return(w1, absorb(w1.comps, c3, _ref.uid))

\* @cell @validate_arguments def heater(length, width, layer_heater)
heater(w, length, width, layer_heater) ==
    LET key == [f |-> "heater",
                args |-> [length |-> length, width |-> width,
                          layer |-> layer_heater]]
    IN  IF ~Ok(w) THEN w
        ELSE IF Cached(w, key) THEN CacheHit(w, key)
        ELSE CacheStore(HeaterBody(w, length, width, layer_heater), key)

(***************************************************************************)
(* components/straight_heater.py: add_trenches, straight_heater            *)
(***************************************************************************)
Sign(n) == IF n > 0 THEN 1 ELSE IF n < 0 THEN -1 ELSE 0

Abs(n) == IF n < 0 THEN -n ELSE n

\* The default of the parameter trenches.
DefaultTrenches ==
    <<[nb_segments |-> 2, lane |-> 1, x_start_offset |-> 0,
       has_segments |-> FALSE, segments |-> <<>>],
      [nb_segments |-> 2, lane |-> -1, x_start_offset |-> 0,
       has_segments |-> FALSE, segments |-> <<>>]>>

\* component.ref(port_id=name, position=position): a reference placed with
\* the named port at the position.
RefAt(heap, child, id, name, position) ==
    [ref(child, id) EXCEPT
        !.origin = Sub(position, DictGet(heap[child].ports, name).midpoint)]

\* Lines 76-85 on the trench Component built in the world wt: a reference
\* to it is placed with its port W0 at the position, and absorbed.
TrenchSegment(wt, c, at) ==
    LET _trench == RefAt(wt.comps, wt.ret, wt.uid + 1, "W0", at)
    IN  [w |-> [wt EXCEPT !.uid = @ + 1],
         c |-> absorb(wt.comps, add_ref(c, _trench), _trench.uid)]

RECURSIVE TrenchSegments(_, _, _, _, _, _, _, _)
\* "for trench_length in segments" on st = [w, c], from segment i at x.
TrenchSegments(st, segments, i, x, y, sstw, trench_width, layer_trench) ==
    LET wt == hline(st.w, segments[i], trench_width, layer_trench)
        at == Add(DictGet(st.c.ports, "W0").midpoint, <<x, y>>)
    IN  IF i > Len(segments) \/ ~Ok(st.w) \/ st.c.err # "ok" THEN st
        ELSE IF ~Ok(wt) THEN [w |-> wt, c |-> st.c]
        ELSE TrenchSegments(TrenchSegment(wt, st.c, at),
                            segments, i + 1, x + segments[i] + sstw, y, sstw,
                            trench_width, layer_trench)

RECURSIVE TrenchLoop(_, _, _, _, _, _, _)
\* "for trench in trenches" on st = [w, c], from trench i.
TrenchLoop(st, trenches, i, sstw, trench_width, tko, layer_trench) ==
    LET heater_width == DictGet(st.c.settings, "heater_width")
        heater_spacing == DictGet(st.c.settings, "heater_spacing")
        width == DictGet(st.c.settings, "width")
        length == DictGet(st.c.settings, "length")
        a == heater_spacing + (width + heater_width) \div 2
        trench == trenches[i]
        lane == trench.lane
        td == tko + a + (trench_width + heater_width) \div 2
        y == Sign(lane) * (td + (Abs(lane) - 1) * (trench_width + tko))
        trench_length ==
            (length - (trench.nb_segments - 1) * sstw) \div trench.nb_segments
        segments == IF ~trench.has_segments
                    THEN [k \in 1..trench.nb_segments |-> trench_length]
                    ELSE trench.segments
    IN  IF i > Len(trenches) \/ ~Ok(st.w) \/ st.c.err # "ok" THEN st
        ELSE TrenchLoop(TrenchSegments(st, segments, 1, trench.x_start_offset,
                                       y, sstw, trench_width, layer_trench),
                        trenches, i + 1, sstw, trench_width, tko, layer_trench)

\* add_trenches(c, sstw, trench_width, trench_keep_out, trenches,
\* layer_trench) on st = [w, c].
add_trenches(st, sstw, trench_width, trench_keep_out, trenches, layer_trench) ==
    IF trench_width # 0 /\ trench_width > 0
    THEN TrenchLoop(st, trenches, 1, sstw, trench_width, trench_keep_out,
                    layer_trench)
    ELSE st

RECURSIVE AddPortsDirect(_, _, _, _)
\* A slip: c.ports[prefix + p.name] = p, which files the port under the
\* new key with the name it had.
AddPortsDirect(c, ports, prefix, i) ==
    IF i > Len(ports) THEN c
    ELSE AddPortsDirect(
             [c EXCEPT !.ports =
                 DictSet(@, prefix \o ports[i].v.name, ports[i].v)],
             ports, prefix, i + 1)

RECURSIVE AddPorts(_, _, _, _)
\* for p in ports.values(): c.add_port(name=prefix + p.name, port=p)
AddPorts(c, ports, prefix, i) ==
    IF i > Len(ports) THEN c
    ELSE AddPorts(add_port(c, prefix \o ports[i].v.name, ports[i].v),
                  ports, prefix, i + 1)

\* The settings straight_heater records on c (lines 156-159).
HeaterSettings(c, length, heater_width, heater_spacing, width) ==
    [c EXCEPT !.settings =
        DictSet(DictSet(DictSet(DictSet(@, "heater_width", heater_width),
                                "heater_spacing", heater_spacing),
                        "length", length),
                "width", width)]

\* return c
StraightHeaterReturn(st) == Return(st.w, st.c)

\* Lines 136-164 in the world ws the straight was built in: the three
\* references are absorbed, their ports are added under the prefixes, the
\* settings are recorded and the trenches are added.
StraightHeaterAssemble(ws, heater_top, heater_bot, a) ==
    LET wg == ref(ws.ret, ws.uid + 1)
        w1 == [ws EXCEPT !.uid = @ + 1]
        h == ws.comps
        c1 == add_ref(add_ref(add_ref(Component, heater_top), heater_bot), wg)
        c2 == absorb(h, absorb(h, absorb(h, c1, heater_top.uid),
                               heater_bot.uid), wg.uid)
        c5 == AddPorts(AddPorts(AddPorts(c2, RefPorts(h, wg), "", 1),
                                RefPorts(h, heater_top), "HT", 1),
                       RefPorts(h, heater_bot), "HB", 1)
        c6 == HeaterSettings(c5, a.length, a.heater_width, a.heater_spacing,
                             StripWidth)
    IN  IF ~Ok(ws) THEN ws
        ELSE IF c5.err # "ok" THEN Raise(w1, c5.err)
        ELSE StraightHeaterReturn(
                 add_trenches([w |-> w1, c |-> c6], a.sstw, a.trench_width, 4,
                              DefaultTrenches, DEEPTRENCH))

\* Lines 124-135 in the world wh the heater was built in: two references to
\* the heater, one above and one below the straight, which is built next.
StraightHeaterPlace(wh, a) ==
    LET y_heater == a.heater_spacing + (StripWidth + a.heater_width) \div 2
    IN  IF ~Ok(wh) THEN wh
        ELSE StraightHeaterAssemble(
                 straight([wh EXCEPT !.uid = @ + 2], a.length),
                 move(ref(wh.ret, wh.uid + 1), <<0, y_heater>>),
                 move(ref(wh.ret, wh.uid + 2), <<0, -y_heater>>), a)

StraightHeaterBody(w, length, heater_width, heater_spacing, sstw, trench_width) ==
    StraightHeaterPlace(
        heater(w, length, heater_width, HEATER),
        [length |-> length, heater_width |-> heater_width,
         heater_spacing |-> heater_spacing, sstw |-> sstw,
         trench_width |-> trench_width])

\* @cell def straight_heater(length, heater_width, heater_spacing, sstw,
\* trench_width, ...)
straight_heater(w, length, heater_width, heater_spacing, sstw, trench_width) ==
    LET key == [f |-> "straight_heater",
                args |-> [length |-> length, heater_width |-> heater_width,
                          heater_spacing |-> heater_spacing, sstw |-> sstw,
                          trench_width |-> trench_width]]
    IN  IF ~Ok(w) THEN w
        ELSE IF Cached(w, key) THEN CacheHit(w, key)
        ELSE CacheStore(StraightHeaterBody(w, length, heater_width,
                                           heater_spacing, sstw, trench_width),
                        key)

(***************************************************************************)
(* components/straight_heater.py: straight_heater_connector,               *)
(* straight_with_heater                                                    *)
(***************************************************************************)
\* The default of the parameter tlm_layers: VIA1, M1, VIA2, M2, VIA3, M3.
TlmLayers == <<<<44, 0>>, <<41, 0>>, <<43, 0>>, <<45, 0>>, <<40, 0>>, <<49, 0>>>>

\* tlm(width, height, layers, vias=[]): a cell-decorated factory, one
\* rectangle per layer, centred on the origin.
tlm(w, width, height, layers) ==
    LET key == [f |-> "tlm",
                args |-> [width |-> width, height |-> height, layers |-> layers]]
        a == width \div 2
        b == height \div 2
        c == [Component EXCEPT !.polygons =
                 [i \in 1..Len(layers) |->
                     [points |-> <<<<-a, -b>>, <<a, -b>>, <<a, b>>, <<-a, b>>>>,
                      layer |-> layers[i]]]]
    IN  IF ~Ok(w) THEN w
        ELSE IF Cached(w, key) THEN CacheHit(w, key)
        ELSE CacheStore(Return(w, c), key)

\* line(p_start, p_end, width): the outline of the segment from p0 to p1,
\* for the axis-parallel segments the connector draws.
line(p0, p1, width) ==
    LET d == <<Sign(p1[1] - p0[1]), Sign(p1[2] - p0[2])>>
        dir == IF d = <<0, 0>> THEN <<1, 0>> ELSE d
        n == Rot(dir, 90)
        vec_w == <<(width * n[1]) \div 2, (width * n[2]) \div 2>>
    IN  <<Add(p0, vec_w), Add(p1, vec_w), Sub(p1, vec_w), Sub(p0, vec_w)>>

\* 7.0 um, in grid units of a quarter of a micron.
edge_metal_piece_width == 28

\* ports.sort(key=lambda p: p.y), of two ports.
SortByY(ports) ==
    IF ports[2].midpoint[2] < ports[1].midpoint[2]
    THEN <<ports[2], ports[1]>> ELSE ports

\* port_orientation=None
None == -1

ConnectorBody(w, heater_ports, tlm_layers, port_width, port_orientation) ==
    LET angle == heater_ports[1].orientation % 360
        ports == SortByY(heater_ports)
        hw == heater_ports[1].width
        wt == tlm(w, 2, 2, tlm_layers)
        tlm_positions == [i \in 1..2 |-> Add(ports[i].midpoint, <<0, 0>>)]
        hm1 == [ref(wt.ret, wt.uid + 1) EXCEPT !.origin = tlm_positions[1]]
        hm2 == [ref(wt.ret, wt.uid + 2) EXCEPT !.origin = tlm_positions[2]]
        w1 == [wt EXCEPT !.uid = @ + 2]
        c2 == add_ref(add_ref(Component, hm1), hm2)
        ss == IF angle = 0 THEN 1 ELSE -1
        x == (ss * edge_metal_piece_width) \div 2
        top_metal_layer == tlm_layers[Len(tlm_layers)]
        c3 == add_polygon(c2,
                          line(Add(tlm_positions[1], <<x, -(hw \div 2)>>),
                               Add(tlm_positions[2], <<x, hw \div 2>>),
                               edge_metal_piece_width),
                          top_metal_layer)
        sum == Add(tlm_positions[1], tlm_positions[2])
        c4 == add_port(c3, "0",
                       Port("0",
                            Add(<<sum[1] \div 2, sum[2] \div 2>>,
                                <<(ss * edge_metal_piece_width) \div 2, 0>>),
                            IF port_orientation # None THEN port_orientation
                            ELSE angle,
                            port_width, top_metal_layer, "dc"))
    IN  IF Len(heater_ports) # 2 THEN Raise(w, "AssertionError")
        ELSE IF heater_ports[1].orientation # heater_ports[2].orientation
        THEN Raise(w, "AssertionError")
        ELSE IF angle \notin {0, 180} THEN Raise(w, "AssertionError")
        ELSE IF ~Ok(wt) THEN wt
        ELSE Return(w1, c4)

\* @cell def straight_heater_connector(heater_ports, tlm_layers,
\* port_width, port_orientation)
straight_heater_connector(w, heater_ports, tlm_layers, port_width, port_orientation) ==
    LET key == [f |-> "straight_heater_connector",
                args |-> [heater_ports |-> heater_ports,
                          tlm_layers |-> tlm_layers,
                          port_width |-> port_width,
                          port_orientation |-> port_orientation]]
    IN  IF ~Ok(w) THEN w
        ELSE IF Cached(w, key) THEN CacheHit(w, key)
        ELSE CacheStore(ConnectorBody(w, heater_ports, tlm_layers, port_width,
                                      port_orientation), key)

\* reference.xmin and reference.xmax: the bounds in x of the reference's
\* flattened polygons.
RefXs(heap, r) ==
    UNION {{poly.points[i][1] : i \in 1..Len(poly.points)} :
           poly \in Range(TransformAll(r, Flatten(heap, heap[r.child])))}

Min(S) == CHOOSE m \in S : \A n \in S : m <= n

Max(S) == CHOOSE m \in S : \A n \in S : m >= n

\* The side of a Component a port faces.
Side(orientation) ==
    CASE orientation % 360 = 0 -> "E"
      [] orientation % 360 = 90 -> "N"
      [] orientation % 360 = 180 -> "W"
      [] OTHER -> "S"

TypePrefix(port_type) ==
    CASE port_type = "optical" -> ""
      [] port_type = "heater" -> "H_"
      [] OTHER -> "E_"

\* auto_rename_ports(component): every port is named after its type and
\* the side it faces, counting the ports of that type on that side.
auto_rename_ports(c) ==
    LET ps == c.ports
        same(i, j) == /\ ps[i].v.port_type = ps[j].v.port_type
                      /\ Side(ps[i].v.orientation) = Side(ps[j].v.orientation)
        name(i) == TypePrefix(ps[i].v.port_type) \o Side(ps[i].v.orientation)
                   \o ToString(Cardinality({j \in 1..(i - 1) : same(i, j)}))
    IN  [c EXCEPT !.ports =
            [i \in 1..Len(ps) |->
                [k |-> name(i), v |-> [ps[i].v EXCEPT !.name = name(i)]]]]

\* component.ports[name].orientation = orientation
SetOrientation(c, name, orientation) ==
    [c EXCEPT !.ports[Get(c.ports, name)].v.orientation = orientation]

RECURSIVE AddPortsByKey(_, _, _)
\* for port_name, p in ports.items(): c.add_port(name=port_name, port=p)
AddPortsByKey(c, ports, i) ==
    IF i > Len(ports) THEN c
    ELSE AddPortsByKey(add_port(c, ports[i].k, ports[i].v), ports, i + 1)

\* A slip: the two orientations are assigned to the wrong ports.
WithHeaterPlaceSwapped(wc2, connector1, wg_heater, a) ==
    LET h == wc2.comps
        conn1a == ref(connector1, wc2.uid + 1)
        conn2a == ref(wc2.ret, wc2.uid + 2)
        w2 == [wc2 EXCEPT !.uid = @ + 2]
        conn1 == move(conn1a, <<Min(RefXs(h, wg_heater)) - Min(RefXs(h, conn1a)), 0>>)
        conn2 == move(conn2a, <<Max(RefXs(h, wg_heater)) - Max(RefXs(h, conn2a)), 0>>)
        c1 == add_ref(add_ref(add_ref(Component, wg_heater), conn1), conn2)
        c2 == AddPortsByKey(c1, RefPorts(h, wg_heater), 1)
        c3 == add_port(c2, "1", DictGet(RefPorts(h, conn1), "0"))
        c4 == add_port(c3, "2", DictGet(RefPorts(h, conn2), "0"))
        c6 == SetOrientation(SetOrientation(c4, "1", a.port_orientation_output),
                             "2", a.port_orientation_input)
    IN  IF ~Ok(wc2) THEN wc2
        ELSE IF c4.err # "ok" THEN Raise(w2, c4.err)
        ELSE Return(w2, auto_rename_ports(c6))

\* Lines 279-292 in the world wc2 the second connector was built in: the
\* connectors are placed against the heater's ends, the heater's ports and
\* the connectors' are added, and all are renamed.
WithHeaterPlace(wc2, connector1, wg_heater, a) ==
    LET h == wc2.comps
        conn1a == ref(connector1, wc2.uid + 1)
        conn2a == ref(wc2.ret, wc2.uid + 2)
        w2 == [wc2 EXCEPT !.uid = @ + 2]
        conn1 == move(conn1a, <<Min(RefXs(h, wg_heater)) - Min(RefXs(h, conn1a)), 0>>)
        conn2 == move(conn2a, <<Max(RefXs(h, wg_heater)) - Max(RefXs(h, conn2a)), 0>>)
        c1 == add_ref(add_ref(add_ref(Component, wg_heater), conn1), conn2)
        c2 == AddPortsByKey(c1, RefPorts(h, wg_heater), 1)
        c3 == add_port(c2, "1", DictGet(RefPorts(h, conn1), "0"))
        c4 == add_port(c3, "2", DictGet(RefPorts(h, conn2), "0"))
        c6 == SetOrientation(SetOrientation(c4, "1", a.port_orientation_input),
                             "2", a.port_orientation_output)
    IN  IF ~Ok(wc2) THEN wc2
        ELSE IF c4.err # "ok" THEN Raise(w2, c4.err)
        ELSE Return(w2, auto_rename_ports(c6))

\* Lines 274-277 in the world wc1 the first connector was built in.
WithHeaterConnector2(wc1, wg_heater, hp, a) ==
    IF ~Ok(wc1) THEN wc1
    ELSE WithHeaterPlace(
             straight_heater_connector(
                 wc1, <<DictGet(hp, "HBW0"), DictGet(hp, "HTW0")>>,
                 TlmLayers, a.port_width, None),
             wc1.ret, wg_heater, a)

\* Lines 269-273 in the world wsh the straight_heater was built in.
WithHeaterConnector1(wsh, wg_heater, hp, a) ==
    WithHeaterConnector2(
        straight_heater_connector(
            [wsh EXCEPT !.uid = @ + 1],
            <<DictGet(hp, "HBE0"), DictGet(hp, "HTE0")>>,
            TlmLayers, a.port_width, None),
        wg_heater, hp, a)

\* wg_heater = component << straight_heater(length=length, **kwargs)
WithHeaterRef(wsh, a) ==
    IF ~Ok(wsh) THEN wsh
    ELSE WithHeaterConnector1(
             wsh, ref(wsh.ret, wsh.uid + 1),
             RefPorts(wsh.comps, ref(wsh.ret, wsh.uid + 1)), a)

StraightWithHeaterBody(w, length, port_width, port_orientation_input, port_orientation_output) ==
    WithHeaterRef(
        straight_heater(w, length, 2, 4, 2, 2),
        [port_width |-> port_width,
         port_orientation_input |-> port_orientation_input,
         port_orientation_output |-> port_orientation_output])

\* @cell def straight_with_heater(length, straight_heater, connector,
\* port_width, port_orientation_input, port_orientation_output, **kwargs)
straight_with_heater(w, length, port_width, port_orientation_input, port_orientation_output) ==
    LET key == [f |-> "straight_with_heater",
                args |-> [length |-> length, port_width |-> port_width,
                          port_orientation_input |-> port_orientation_input,
                          port_orientation_output |-> port_orientation_output]]
    IN  IF ~Ok(w) THEN w
        ELSE IF Cached(w, key) THEN CacheHit(w, key)
        ELSE CacheStore(StraightWithHeaterBody(w, length, port_width,
                                               port_orientation_input,
                                               port_orientation_output), key)

(***************************************************************************)
(* components/fiber_array.py                                               *)
(***************************************************************************)
\* One turn of the loop "for i in range(n)" on st = [w, c].
FiberStep(st, i, pitch, core_diameter, cladding_diameter) ==
    LET w1 == circle(st.w, core_diameter \div 2, WG)
        core == ref(w1.ret, w1.uid + 1)
        w2 == circle([w1 EXCEPT !.uid = @ + 1], cladding_diameter \div 2, WGCLAD)
        cladding == ref(w2.ret, w2.uid + 1)
        w3 == [w2 EXCEPT !.uid = @ + 1]
        c1 == add_ref(st.c, core)
        c2 == add_ref(c1, cladding)
        c3 == UpdateRef(c2, core.uid, move(core, <<i * pitch, 0>>))
        c4 == UpdateRef(c3, cladding.uid, move(cladding, <<i * pitch, 0>>))
        c5 == add_port(c4, "F" \o ToString(i),
                       Port("", <<0, 0>>, 0, core_diameter, WG, "optical"))
    IN  IF ~Ok(w1) THEN [w |-> w1, c |-> st.c]
        ELSE IF ~Ok(w2) THEN [w |-> w2, c |-> c1]
        ELSE [w |-> w3, c |-> c5]

RECURSIVE FiberLoop(_, _, _, _, _, _)
FiberLoop(st, i, n, pitch, core_diameter, cladding_diameter) ==
    IF i >= n \/ ~Ok(st.w) \/ st.c.err # "ok" THEN st
    ELSE FiberLoop(FiberStep(st, i, pitch, core_diameter, cladding_diameter),
                   i + 1, n, pitch, core_diameter, cladding_diameter)

FiberArrayBody(w, n, pitch, core_diameter, cladding_diameter) ==
    LET st == FiberLoop([w |-> w, c |-> Component], 0, n, pitch,
                        core_diameter, cladding_diameter)
    IN  Return(st.w, st.c)

\* @cell @validate_arguments def fiber_array(n, pitch, core_diameter,
\* cladding_diameter, layer_core, layer_cladding)
fiber_array(w, n, pitch, core_diameter, cladding_diameter) ==
    LET key == [f |-> "fiber_array",
                args |-> [n |-> n, pitch |-> pitch,
                          core_diameter |-> core_diameter,
                          cladding_diameter |-> cladding_diameter]]
    IN  IF ~Ok(w) THEN w
        ELSE IF Cached(w, key) THEN CacheHit(w, key)
        ELSE CacheStore(FiberArrayBody(w, n, pitch, core_diameter,
                                       cladding_diameter), key)

(***************************************************************************)
(* components/coupler90.py                                                 *)
(***************************************************************************)
\* A slip: the bend's reference is moved up by the gap alone, without the
\* width of the waveguide.
Coupler90PlaceStraightGapOnly(ws, c1, bend_ref, gap) ==
    LET wg_ref == ref(ws.ret, ws.uid + 1)
        c2 == add_ref(c1, wg_ref)
        pbw == TransformPort(bend_ref, DictGet(ws.comps[bend_ref.child].ports, "W0"))
        c3 == UpdateRef(c2, bend_ref.uid, move(bend_ref, <<0, pbw.midpoint[2] + gap>>))
    IN  IF ~Ok(ws) THEN [w |-> ws, c |-> c1, bend_ref |-> 0, wg_ref |-> 0]
        ELSE [w |-> [ws EXCEPT !.uid = @ + 1], c |-> c3,
              bend_ref |-> bend_ref.uid, wg_ref |-> wg_ref.uid]

\* Lines 45-58 in the world ws the straight was built in: the straight's
\* reference is added and the bend's is moved up by the gap.  The result
\* is the Component under construction with its world and the uids of the
\* two references: [w, c, bend_ref, wg_ref].
Coupler90PlaceStraight(ws, c1, bend_ref, gap) ==
    LET width == StripWidth
        wg_ref == ref(ws.ret, ws.uid + 1)
        c2 == add_ref(c1, wg_ref)
        pbw == TransformPort(bend_ref, DictGet(ws.comps[bend_ref.child].ports, "W0"))
        c3 == UpdateRef(c2, bend_ref.uid,
                        move(bend_ref, <<0, pbw.midpoint[2] + gap + width>>))
    IN  IF ~Ok(ws) THEN [w |-> ws, c |-> c1, bend_ref |-> 0, wg_ref |-> 0]
        ELSE [w |-> [ws EXCEPT !.uid = @ + 1], c |-> c3,
              bend_ref |-> bend_ref.uid, wg_ref |-> wg_ref.uid]

\* Lines 41-44 in the world wb the bend was built in: the bend's reference
\* is added and the straight is built as long as the bend is wide.
Coupler90PlaceBend(wb, gap) ==
    LET bend90 == wb.comps[wb.ret]
        bend_ref == ref(wb.ret, wb.uid + 1)
    IN  IF ~Ok(wb) THEN [w |-> wb, c |-> Component, bend_ref |-> 0, wg_ref |-> 0]
        ELSE Coupler90PlaceStraight(
                 straight([wb EXCEPT !.uid = @ + 1],
                          DictGet(bend90.ports, "N0").midpoint[1]
                              - DictGet(bend90.ports, "W0").midpoint[1]),
                 add_ref(Component, bend_ref), bend_ref, gap)

\* The Component under construction after the two references are placed
\* (line 58), with the world it was built in.
Coupler90Placed(w, gap, radius, bend) ==
    Coupler90PlaceBend(BendFactory(w, bend, 90, StripRadius), gap)

\* c.add_port(name, port=reference.ports[of])
AddRefPort(heap, c, name, id, of) ==
    add_port(c, name, DictGet(RefPorts(heap, RefOf(c, id)), of))

\* Lines 64-67.
Coupler90AddPorts(heap, c, bend_ref, wg_ref) ==
    AddRefPort(heap,
        AddRefPort(heap,
            AddRefPort(heap,
                AddRefPort(heap, c, "E0", wg_ref, "E0"),
                "N0", bend_ref, "N0"),
            "W0", wg_ref, "W0"),
        "W1", bend_ref, "W0")

\* A slip: the bend reference is moved up by the gap after the absorbs.
Coupler90FinishMoveLate(p) ==
    LET h == p.w.comps
        moved == RefOf(p.c, p.bend_ref)
        c0 == UpdateRef(p.c, p.bend_ref, ref(moved.child, p.bend_ref))
        c4 == absorb(h, absorb(h, c0, p.wg_ref), p.bend_ref)
    IN  IF ~Ok(p.w) THEN p.w
        ELSE Return(p.w, Coupler90AddPorts(h, UpdateRef(c4, p.bend_ref, moved),
                                           p.bend_ref, p.wg_ref))

\* Lines 61-69 on the placed references p.
Coupler90Finish(p) ==
    LET h == p.w.comps
        c4 == absorb(h, absorb(h, p.c, p.wg_ref), p.bend_ref)
    IN  IF ~Ok(p.w) THEN p.w
        ELSE Return(p.w, Coupler90AddPorts(h, c4, p.bend_ref, p.wg_ref))

Coupler90Body(w, gap, radius, bend) ==
    Coupler90Finish(Coupler90Placed(w, gap, radius, bend))

\* @gf.cell def coupler90(gap, radius, bend, cross_section, **kwargs)
coupler90(w, gap, radius, bend) ==
    LET key == [f |-> "coupler90",
                args |-> [gap |-> gap, radius |-> radius, bend |-> bend]]
    IN  IF ~Ok(w) THEN w
        ELSE IF Cached(w, key) THEN CacheHit(w, key)
        ELSE CacheStore(Coupler90Body(w, gap, radius, bend), key)

(***************************************************************************)
(* routing/get_routes_bend180.py                                           *)
(***************************************************************************)
NoRoutes == [none |-> TRUE]

\* list(ports.values()) if isinstance(ports, dict) else ports
PortList(ports) ==
    IF ports.isdict THEN Values(ports.items) ELSE ports.items

\* A slip: [bend.ref()] * len(ports), one reference object shared by all
\* the ports and left where the last connect put it.
ReferencesShared(heap, bend, u, plist) ==
    [i \in 1..Len(plist) |->
        connect(heap, ref(bend, u + 1), "W0", plist[Len(plist)])]

\* [bend.ref() for port in ports], each then connected by its W0 to its
\* port; u is the uid counter before.
References(heap, bend, u, plist) ==
    LET created == [i \in 1..Len(plist) |-> ref(bend, u + i)]
    IN  [i \in 1..Len(plist) |-> connect(heap, created[i], "W0", plist[i])]

RECURSIVE PortsDictFromOne(_, _, _)
\* A slip: enumerate(references[1:]), which drops the first reference.
PortsDictFromOne(heap, references, i) ==
    IF i <= 1 THEN <<>>
    ELSE DictSet(PortsDictFromOne(heap, references, i - 1), ToString(i - 2),
                 DictGet(RefPorts(heap, references[i]), "W1"))

RECURSIVE PortsDictByUid(_, _, _)
\* A slip: keys taken from the references' uids, which depend on how many
\* references were made before the call.
PortsDictByUid(heap, references, i) ==
    IF i = 0 THEN <<>>
    ELSE DictSet(PortsDictByUid(heap, references, i - 1),
                 ToString(references[i].uid),
                 DictGet(RefPorts(heap, references[i]), "W1"))

RECURSIVE PortsDict(_, _, _)
\* {f"{i}": ref.ports["W1"] for i, ref in enumerate(references)}
PortsDict(heap, references, i) ==
    IF i = 0 THEN <<>>
    ELSE DictSet(PortsDict(heap, references, i - 1), ToString(i - 1),
                 DictGet(RefPorts(heap, references[i]), "W1"))

\* A slip: [bend.length * len(ports)], the product in a list of one.
LengthsProduct(heap, bend, outports) ==
    <<heap[bend].length * Len(outports)>>

\* [bend.length] * len(ports), ports being the dict of output ports by now
Lengths(heap, bend, outports) ==
    [i \in 1..Len(outports) |-> heap[bend].length]

\* A slip: a port that cannot be connected is skipped and the Routes of
\* the others returned.
GetRoutesSkipping(w, ports, bend_factory, radius) ==
    LET wb == BendFactory(w, bend_factory, 180, radius)
        bend == wb.ret
        plist == SelectSeq(PortList(ports),
                           LAMBDA p : CanConnect(wb.comps, ref(bend, 0), "W0", p))
        w1 == [wb EXCEPT !.uid = @ + Len(plist)]
        references == References(w1.comps, bend, wb.uid, plist)
        outports == PortsDict(w1.comps, references, Len(references))
    IN  IF ~Ok(wb) THEN [w |-> wb, routes |-> NoRoutes]
        ELSE [w |-> IF Len(plist) < Len(PortList(ports))
                    THEN Raise(w1, "ValueError") ELSE w1,
              routes |-> [references |-> references, ports |-> outports,
                          lengths |-> Lengths(w1.comps, bend, outports)]]

\* get_routes_bend180(ports, bend_factory, radius=radius): the world after
\* the call, and the Routes returned (NoRoutes when it raised).
get_routes_bend180(w, ports, bend_factory, radius) ==
    LET plist == PortList(ports)
        wb == BendFactory(w, bend_factory, 180, radius)
        bend == wb.ret
        n == Len(plist)
        w1 == [wb EXCEPT !.uid = @ + n]
        references == References(w1.comps, bend, wb.uid, plist)
        outports == PortsDict(w1.comps, references, Len(references))
    IN  IF ~Ok(wb) THEN [w |-> wb, routes |-> NoRoutes]
        ELSE IF \E i \in 1..n :
                    ~CanConnect(w1.comps, ref(bend, 0), "W0", plist[i])
        THEN [w |-> Raise(w1, "ValueError"), routes |-> NoRoutes]
        ELSE IF n > 0 /\ "W1" \notin Keys(w1.comps[bend].ports)
        THEN [w |-> Raise(w1, "KeyError"), routes |-> NoRoutes]
        ELSE [w |-> w1,
              routes |-> [references |-> references, ports |-> outports,
                          lengths |-> Lengths(w1.comps, bend, outports)]]

(***************************************************************************)
(* routing/manhattan.py: route_manhattan, for an input port facing east    *)
(* and an output port facing west, ahead of it and not below it (the       *)
(* configurations fixme/route_sbend.py builds).                            *)
(***************************************************************************)
\* The pieces of the rectilinear path from p to q with 90 degree bends of
\* the radius: a straight, a left turn, a straight, a right turn and a
\* straight, each to start at a point with a heading; a straight of no
\* length is left out.
ManhattanPieces(p, q, radius) ==
    LET dx == q[1] - p[1]
        dy == q[2] - p[2]
        xm == p[1] + dx \div 2
        s(at, rotation, len) ==
            IF len > 0
            THEN <<[kind |-> "straight", at |-> at, rotation |-> rotation,
                    length |-> len]>>
            ELSE <<>>
        b(at, rotation) ==
            <<[kind |-> "bend", at |-> at, rotation |-> rotation,
               length |-> radius]>>
    IN  IF dy = 0 THEN s(p, 0, dx)
        ELSE s(p, 0, dx \div 2 - radius)
             \o b(<<xm - radius, p[2]>>, 0)
             \o s(<<xm, p[2] + radius>>, 90, dy - 2 * radius)
             \o b(<<xm + radius, q[2]>>, 180)
             \o s(<<xm + radius, q[2]>>, 0, dx \div 2 - radius)

\* No rectilinear path with bends of the radius fits between p and q.
Infeasible(p, q, radius) ==
    LET dx == q[1] - p[1]
        dy == q[2] - p[2]
    IN  IF dy = 0 THEN dx < 0
        ELSE dx \div 2 < radius \/ dy < 2 * radius

\* A reference to the Component built in the world wt, placed as the piece
\* says; st = [w, references].
PlacePiece(wt, references, piece) ==
    [w |-> IF Ok(wt) THEN [wt EXCEPT !.uid = @ + 1] ELSE wt,
     references |->
         IF Ok(wt)
         THEN Append(references,
                     [ref(wt.ret, wt.uid + 1) EXCEPT
                         !.origin = piece.at, !.rotation = piece.rotation])
         ELSE references]

RECURSIVE PlacePieces(_, _, _, _)
PlacePieces(st, pieces, i, radius) ==
    IF i > Len(pieces) \/ ~Ok(st.w) THEN st
    ELSE PlacePieces(
             PlacePiece(IF pieces[i].kind = "straight"
                        THEN straight(st.w, pieces[i].length)
                        ELSE BendFactory(st.w, "bend_euler", 90, radius),
                        st.references, pieces[i]),
             pieces, i + 1, radius)

RECURSIVE PathLength(_, _, _)
PathLength(heap, references, i) ==
    IF i > Len(references) THEN 0
    ELSE heap[references[i].child].length + PathLength(heap, references, i + 1)

\* return Route(references, ports, length)
RouteOf(st, input_port, output_port) ==
    [w |-> st.w,
     routes |-> IF Ok(st.w)
                THEN [references |-> st.references,
                      ports |-> <<input_port, output_port>>,
                      length |-> PathLength(st.w.comps, st.references, 1)]
                ELSE NoRoutes]

\* route_manhattan(input_port, output_port, radius=radius): the world after
\* the call, and the Route returned (NoRoutes when it raised).
route_manhattan(w, input_port, output_port, radius) ==
    IF ~Ok(w) THEN [w |-> w, routes |-> NoRoutes]
    ELSE IF Infeasible(input_port.midpoint, output_port.midpoint, radius)
    THEN [w |-> Raise(w, "RoutingInfeasibleError"), routes |-> NoRoutes]
    ELSE RouteOf(PlacePieces([w |-> w, references |-> <<>>],
                             ManhattanPieces(input_port.midpoint,
                                             output_port.midpoint, radius),
                             1, radius),
                 input_port, output_port)

(***************************************************************************)
(* Export and import: write_gds, write_gds_with_metadata, read.from_gds,   *)
(* to_dict and hash_geometry.  A file holds named cells, each with its     *)
(* polygons and its references to other cells by name, and beside them     *)
(* the metadata of the top cell: its name, settings and ports.             *)
(***************************************************************************)
IsCached(w, id) == \E i \in 1..Len(w.cache) : w.cache[i].v = id

KeyOf(w, id) == w.cache[CHOOSE i \in 1..Len(w.cache) : w.cache[i].v = id].k

NoSettings == [none |-> TRUE]

\* The name and settings the cell decorator records for the Component it
\* returns (its factory and the parameters of the call); a Component read
\* from a file holds those the file gave it.
InfoOf(w, id) ==
    IF IsCached(w, id)
    THEN [name |-> KeyOf(w, id), settings |-> KeyOf(w, id).args]
    ELSE IF "info" \in Keys(w.comps[id].settings)
    THEN DictGet(w.comps[id].settings, "info")
    ELSE [name |-> [f |-> "Unnamed", args |-> [id |-> id]],
          settings |-> NoSettings]

\* component.to_dict: the name, the settings and the ports.
to_dict(w, id) ==
    [name |-> InfoOf(w, id).name, settings |-> InfoOf(w, id).settings,
     ports |-> {w.comps[id].ports[i].v : i \in 1..Len(w.comps[id].ports)}]

\* component.hash_geometry(): a digest of the flattened polygons, whatever
\* their order.
hash_geometry(w, id) == Flat(w.comps, w.comps[id])

\* The cell of one Component.
CellOf(w, id) ==
    [name |-> InfoOf(w, id).name,
     polygons |-> w.comps[id].polygons,
     references |->
         [i \in 1..Len(w.comps[id].refs) |->
             [cell |-> InfoOf(w, w.comps[id].refs[i].child).name,
              origin |-> w.comps[id].refs[i].origin,
              rotation |-> w.comps[id].refs[i].rotation]]]

RECURSIVE CellsOf(_, _)
RECURSIVE CellsOfRefs(_, _, _)
\* The cells of a Component and of its descendants, children first.
CellsOf(w, id) == CellsOfRefs(w, w.comps[id].refs, 1) \o <<CellOf(w, id)>>

CellsOfRefs(w, rs, i) ==
    IF i > Len(rs) THEN <<>>
    ELSE CellsOf(w, rs[i].child) \o CellsOfRefs(w, rs, i + 1)

RECURSIVE OncePerName(_, _)
\* A file holds each cell once: the first of every name.
OncePerName(cells, i) ==
    IF i > Len(cells) THEN <<>>
    ELSE IF \E j \in 1..(i - 1) : cells[j].name = cells[i].name
    THEN OncePerName(cells, i + 1)
    ELSE <<cells[i]>> \o OncePerName(cells, i + 1)

NoMetadata == [none |-> TRUE]

\* No file at gdspath.
NoFile == [none |-> TRUE]

\* component.write_gds(gdspath): the cells alone.
write_gds(w, id) ==
    [cells |-> OncePerName(CellsOf(w, id), 1), metadata |-> NoMetadata]

\* component.write_gds_with_metadata(gdspath): the cells, and the name,
\* settings and ports of the Component beside them.
write_gds_with_metadata(w, id) ==
    [cells |-> OncePerName(CellsOf(w, id), 1),
     metadata |-> [name |-> InfoOf(w, id).name,
                   settings |-> InfoOf(w, id).settings,
                   ports |-> w.comps[id].ports]]

\* The instance read for the cell of a name; ids maps the names read so far.
RECURSIVE ReadRefs(_, _, _, _)
ReadRefs(references, ids, u, i) ==
    IF i > Len(references) THEN <<>>
    ELSE <<[uid |-> u + i, child |-> DictGet(ids, references[i].cell),
            origin |-> references[i].origin,
            rotation |-> references[i].rotation]>>
         \o ReadRefs(references, ids, u, i + 1)

\* One cell read into a new Component of the heap; st = [w, ids].
ReadCell(st, cell, info, ports) ==
    [w |-> [st.w EXCEPT
               !.comps = Append(@, [Component EXCEPT
                   !.polygons = cell.polygons,
                   !.refs = ReadRefs(cell.references, st.ids, st.w.uid, 1),
                   !.ports = ports,
                   !.settings = <<[k |-> "info", v |-> info]>>]),
               !.uid = @ + Len(cell.references),
               !.ret = Len(st.w.comps) + 1],
     ids |-> DictSet(st.ids, cell.name, Len(st.w.comps) + 1)]

RECURSIVE ReadCells(_, _, _)
\* The cells of a file read in order; the last is the top cell, which takes
\* the settings and ports of the metadata when the file has them.
ReadCells(st, file, i) ==
    IF i > Len(file.cells) THEN st
    ELSE IF i = Len(file.cells) /\ file.metadata # NoMetadata
    THEN ReadCell(st, file.cells[i],
                  [name |-> file.metadata.name,
                   settings |-> file.metadata.settings],
                  file.metadata.ports)
    ELSE ReadCells(ReadCell(st, file.cells[i],
                            [name |-> file.cells[i].name,
                             settings |-> NoSettings], <<>>),
                   file, i + 1)

\* gf.read.from_gds(gdspath): a new Component, which is not cached.
from_gds(w, file) ==
    IF ~Ok(w) THEN w
    ELSE IF file = NoFile THEN Raise(w, "FileNotFoundError")
    ELSE ReadCells([w |-> w, ids |-> <<>>], file, 1).w

(***************************************************************************)
(* plugins/tidy3d/gtidy3d/get_simulation.py: the source and the port       *)
(* monitors of the Simulation.  Positions in the Simulation are in half    *)
(* grid units, so that the centre of a bounding box of odd size is exact.  *)
(* The structures and the domain monitor, which read no port, are left     *)
(* out.                                                                    *)
(***************************************************************************)
NoSim == [none |-> TRUE]

\* port_margin = 0.5, in half grid units.
port_margin == 1

Points(heap, c) ==
    UNION {Range(poly.points) : poly \in Range(Flatten(heap, c))}

\* Twice the centre of the bounding box of c.
Center2(heap, c) ==
    <<Min({pt[1] : pt \in Points(heap, c)}) + Max({pt[1] : pt \in Points(heap, c)}),
      Min({pt[2] : pt \in Points(heap, c)}) + Max({pt[2] : pt \in Points(heap, c)})>>

\* component = component.copy(); component.x = 0; component.y = 0: the ports
\* of the copy, in half grid units.
CenteredPorts(heap, c) ==
    [i \in 1..Len(c.ports) |->
        [k |-> c.ports[i].k,
         v |-> [c.ports[i].v EXCEPT
                   !.midpoint = Sub(<<2 * @[1], 2 * @[2]>>, Center2(heap, c)),
                   !.width = 2 * @]]]

RECURSIVE SortPortsBy(_, _, _, _)
\* sort_ports_x (axis 1) and sort_ports_y (axis 2): a stable sort.
SortPortsBy(ports, axis, i, sorted) ==
    IF i > Len(ports) THEN sorted
    ELSE LET k == Cardinality({j \in 1..Len(sorted) :
                      sorted[j].midpoint[axis] <= ports[i].midpoint[axis]})
         IN  SortPortsBy(ports, axis, i + 1,
                         SubSeq(sorted, 1, k) \o <<ports[i]>>
                             \o SubSeq(sorted, k + 1, Len(sorted)))

\* move_polar_rad_copy(pos, angle, length): pos moved by length along angle.
move_polar_rad_copy(pos, angle, length) ==
    Add(pos, Rot(<<length, 0>>, angle))

\* size_x, size_y of a source or monitor across a port.
PlaneSize(port) ==
    IF port.orientation % 180 = 0
    THEN <<0, port.width + 2 * port_margin>>
    ELSE <<port.width + 2 * port_margin, 0>>

\* Lines 155-173: the mode source on the source port.
ModeSource(port) == [size |-> PlaneSize(port), center |-> port.midpoint, z |-> "0"]

\* Lines 179-201: one turn of the loop "for port in ports".
ModeMonitor(port, port_source_name, distance_source_to_monitors) ==
    LET length == IF port.name = port_source_name
                  THEN -distance_source_to_monitors ELSE 0
        xy_shifted == move_polar_rad_copy(port.midpoint, port.orientation, length)
        center == xy_shifted
    IN  [center |-> <<port.midpoint[1], port.midpoint[2]>>, z |-> "t_core / 2",
         size |-> PlaneSize(port), name |-> port.name]

RECURSIVE Monitors(_, _, _, _, _)
\* Lines 176-201: monitors[port_name] = td.ModeMonitor(...)
Monitors(ports, i, port_source_name, distance_source_to_monitors, monitors) ==
    IF i > Len(ports) THEN monitors
    ELSE Monitors(ports, i + 1, port_source_name, distance_source_to_monitors,
                  DictSet(monitors, ports[i].name,
                          ModeMonitor(ports[i], port_source_name,
                                      distance_source_to_monitors)))

\* Lines 110-212 on the ports of the centred copy.
SimulationOf(ports, port_source_name, distance_source_to_monitors) ==
    [component |-> [ports |-> ports],
     port_source_name |-> port_source_name,
     distance_source_to_monitors |-> distance_source_to_monitors,
     sources |-> <<ModeSource(DictGet(ports, port_source_name))>>,
     monitors |->
         Monitors(SortPortsBy(SortPortsBy(Values(ports), 2, 1, <<>>), 1, 1, <<>>),
                  1, port_source_name, distance_source_to_monitors, <<>>)]

\* get_simulation(component, port_source_name, distance_source_to_monitors):
\* the world, with the Simulation or NoSim.
get_simulation(w, id, port_source_name, distance_source_to_monitors) ==
    LET c == w.comps[id]
    IN  IF port_source_name \notin Keys(c.ports) /\ c.ports = <<>>
        THEN [w |-> Raise(w, "IndexError"), sim |-> NoSim]
        ELSE [w |-> [w EXCEPT !.ret = 0],
              sim |-> SimulationOf(
                          CenteredPorts(w.comps, c),
                          IF port_source_name \in Keys(c.ports)
                          THEN port_source_name ELSE c.ports[1].v.name,
                          distance_source_to_monitors)]

(***************************************************************************)
(* The calling script (test_get_routes_bend180): it holds a collection of  *)
(* ports, an enclosing Component c (top) and the Routes of its last call.  *)
(***************************************************************************)
PortA == Port("S0", <<10, 0>>, 0, 2, WG, "optical")

PortB == Port("S1", <<0, 6>>, 90, 2, WG, "optical")

PortPool == {PortA, PortB, NotAPort}

\* The settings the script routes with.
BendSettings ==
    {<<"bend_euler", -2>>, <<"bend_euler", 2>>, <<"bend_euler", 4>>,
     <<"bend_circular", 2>>}

AsList(l) == [isdict |-> FALSE, items |-> l]

\* A dict of the same ports whose keys run against the insertion order.
AsDict(l) ==
    [isdict |-> TRUE,
     items |-> [i \in 1..Len(l) |-> [k |-> ToString(Len(l) - i), v |-> l[i]]]]

PortCollections ==
    {AsList(l) : l \in SeqsUpTo(PortPool, MaxPorts)} \cup
    {AsDict(l) : l \in SeqsUpTo(PortPool, MaxPorts)}

ThisWorld == World(comps, cache, uid)

Before == [comps |-> comps, cache |-> cache, top |-> top]

Commit(w) ==
    /\ comps' = w.comps
    /\ cache' = w.cache
    /\ uid' = w.uid

\* What a Routes value shows of itself to a caller.
RoutesView(r) ==
    IF r = NoRoutes THEN [ports |-> <<>>, lengths |-> <<>>, none |-> TRUE]
    ELSE [ports |-> r.ports, lengths |-> r.lengths, none |-> FALSE]

\* routes_bend180 = get_routes_bend180(ports=..., bend_factory=f, radius=r)
CallGetRoutes(f, r) ==
    /\ ncalls < MaxCalls
    /\ LET res == get_routes_bend180(ThisWorld, fixture, f, r)
           call == [op |-> "get_routes_bend180",
                    args |-> [bend_factory |-> f, radius |-> r]]
       IN  /\ Commit(res.w)
           /\ routes' = res.routes
           /\ last' = [call |-> call, err |-> res.w.err, ret |-> res.w.ret,
                       before |-> Before]
           /\ hist' = Append(hist, [call |-> call, err |-> res.w.err,
                                     out |-> RoutesView(res.routes)])
    /\ ncalls' = ncalls + 1
    /\ UNCHANGED <<top, fixture, disk, sim>>

RECURSIVE AddAll(_, _, _)
AddAll(c, rs, i) ==
    IF i > Len(rs) THEN c ELSE AddAll(add_ref(c, rs[i]), rs, i + 1)

\* c.add(routes_bend180.references)
AddRoutes ==
    /\ routes # NoRoutes
    /\ \A i \in 1..Len(routes.references) : ~HasRef(top, routes.references[i].uid)
    /\ top' = AddAll(top, routes.references, 1)
    /\ UNCHANGED <<comps, cache, uid, routes, last, hist, ncalls, fixture, disk, sim>>

\* The outcome of a factory call, as the state of the script.
Called(op, args, w) ==
    /\ Commit(w)
    /\ last' = [call |-> [op |-> op, args |-> args], err |-> w.err,
                ret |-> w.ret, before |-> Before]
    /\ hist' = Append(hist, [call |-> [op |-> op, args |-> args],
                             err |-> w.err, out |-> [ret |-> w.ret]])
    /\ ncalls' = ncalls + 1

\* A direct call of a bend factory.
CallBend(f, angle, r) ==
    /\ ncalls < MaxCalls
    /\ Called(f, [angle |-> angle, radius |-> r],
              BendFactory(ThisWorld, f, angle, r))
    /\ UNCHANGED <<top, routes, fixture, disk, sim>>

InitCommon ==
    /\ comps = <<>>
    /\ cache = <<>>
    /\ uid = 0
    /\ top = Component
    /\ routes = NoRoutes
    /\ last = [call |-> [op |-> "none", args |-> <<>>], err |-> "ok", ret |-> 0,
               before |-> [comps |-> <<>>, cache |-> <<>>, top |-> Component]]
    /\ hist = <<>>
    /\ ncalls = 0
    /\ disk = NoFile
    /\ sim = NoSim

InitRoutes == InitCommon /\ fixture \in PortCollections

NextRoutes ==
    \/ \E s \in BendSettings : CallGetRoutes(s[1], s[2])
    \/ AddRoutes
    \/ \E s \in BendSettings : CallBend(s[1], 180, s[2])

SpecRoutes == InitRoutes /\ [][NextRoutes]_vars

(***************************************************************************)
(* A script that calls the factories, in any order.                        *)
(***************************************************************************)
\* Parameter sets: a base call and calls that differ from it in one
\* parameter each.
TriangleArgs ==
    {[x |-> 4, xtop |-> 0, y |-> 4, layer |-> WG],
     [x |-> -2, xtop |-> 0, y |-> 4, layer |-> WG],
     [x |-> 4, xtop |-> 2, y |-> 4, layer |-> WG],
     [x |-> 4, xtop |-> 0, y |-> -4, layer |-> WG],
     [x |-> 4, xtop |-> 0, y |-> 4, layer |-> HEATER]}

HeaterArgs ==
    {[length |-> 4, width |-> 2, layer |-> HEATER],
     [length |-> -4, width |-> 2, layer |-> HEATER],
     [length |-> 4, width |-> -2, layer |-> HEATER]}

FiberArrayArgs ==
    {[n |-> 2, pitch |-> 6, core_diameter |-> 2, cladding_diameter |-> 4],
     [n |-> 1, pitch |-> 6, core_diameter |-> -2, cladding_diameter |-> 4],
     [n |-> 0, pitch |-> 6, core_diameter |-> -2, cladding_diameter |-> 4]}

Coupler90Args ==
    {[gap |-> 2, radius |-> 4, bend |-> "bend_euler"],
     [gap |-> 4, radius |-> 4, bend |-> "bend_euler"],
     [gap |-> 2, radius |-> 2, bend |-> "bend_euler"],
     [gap |-> 2, radius |-> 4, bend |-> "bend_circular"]}

CallTriangle(a) ==
    /\ ncalls < MaxCalls
    /\ Called("triangle", a, triangle(ThisWorld, a.x, a.xtop, a.y, a.layer))
    /\ UNCHANGED <<top, routes, fixture, disk, sim>>

CallHeater(a) ==
    /\ ncalls < MaxCalls
    /\ Called("heater", a, heater(ThisWorld, a.length, a.width, a.layer))
    /\ UNCHANGED <<top, routes, fixture, disk, sim>>

CallFiberArray(a) ==
    /\ ncalls < MaxCalls
    /\ Called("fiber_array", a,
              fiber_array(ThisWorld, a.n, a.pitch, a.core_diameter,
                          a.cladding_diameter))
    /\ UNCHANGED <<top, routes, fixture, disk, sim>>

CallCoupler90(a) ==
    /\ ncalls < MaxCalls
    /\ Called("coupler90", a, coupler90(ThisWorld, a.gap, a.radius, a.bend))
    /\ UNCHANGED <<top, routes, fixture, disk, sim>>

Init == InitCommon /\ fixture = AsList(<<>>)

Next ==
    \/ \E a \in TriangleArgs : CallTriangle(a)
    \/ \E a \in HeaterArgs : CallHeater(a)
    \/ \E a \in FiberArrayArgs : CallFiberArray(a)
    \/ \E a \in Coupler90Args : CallCoupler90(a)

Spec == Init /\ [][Next]_vars

(***************************************************************************)
(* A script that composes: it calls hline and the factories that build on  *)
(* it, and adds ports to its own Component c (top).                        *)
(***************************************************************************)
HlineArgs == {[length |-> 4, width |-> 2, layer |-> HEATER]}

StraightHeaterArgs ==
    {[length |-> 4, heater_width |-> 2, heater_spacing |-> 4, sstw |-> 2,
      trench_width |-> 2],
     [length |-> 4, heater_width |-> 2, heater_spacing |-> 4, sstw |-> 2,
      trench_width |-> 0],
     [length |-> -4, heater_width |-> 2, heater_spacing |-> 4, sstw |-> 2,
      trench_width |-> 2]}

StraightWithHeaterArgs ==
    {[length |-> 4, port_width |-> 10, port_orientation_input |-> 90,
      port_orientation_output |-> 90],
     [length |-> 4, port_width |-> 10, port_orientation_input |-> 90,
      port_orientation_output |-> 270]}

ComposeCoupler90Args ==
    {a \in Coupler90Args : a.radius = 4 /\ a.bend = "bend_euler"}

PortNames == {"W0", "E0"}

CallHline(a) ==
    /\ ncalls < MaxCalls
    /\ Called("hline", a, hline(ThisWorld, a.length, a.width, a.layer))
    /\ UNCHANGED <<top, routes, fixture, disk, sim>>

CallStraightHeater(a) ==
    /\ ncalls < MaxCalls
    /\ Called("straight_heater", a,
              straight_heater(ThisWorld, a.length, a.heater_width,
                              a.heater_spacing, a.sstw, a.trench_width))
    /\ UNCHANGED <<top, routes, fixture, disk, sim>>

CallStraightWithHeater(a) ==
    /\ ncalls < MaxCalls
    /\ Called("straight_with_heater", a,
              straight_with_heater(ThisWorld, a.length, a.port_width,
                                   a.port_orientation_input,
                                   a.port_orientation_output))
    /\ UNCHANGED <<top, routes, fixture, disk, sim>>

\* c.add_port(name=name, port=PortA)
AddPort(name) ==
    /\ ncalls < MaxCalls
    /\ LET c == add_port(top, name, PortA)
       IN  /\ top' = [c EXCEPT !.err = "ok"]
           /\ last' = [call |-> [op |-> "add_port", args |-> [name |-> name]],
                       err |-> c.err, ret |-> 0, before |-> Before]
    /\ ncalls' = ncalls + 1
    /\ UNCHANGED <<comps, cache, uid, routes, hist, fixture, disk, sim>>

NextCompose ==
    \/ \E a \in HlineArgs : CallHline(a)
    \/ \E a \in HeaterArgs : CallHeater(a)
    \/ \E a \in StraightHeaterArgs : CallStraightHeater(a)
    \/ \E a \in StraightWithHeaterArgs : CallStraightWithHeater(a)
    \/ \E a \in ComposeCoupler90Args : CallCoupler90(a)
    \/ \E n \in PortNames : AddPort(n)

SpecCompose == Init /\ [][NextCompose]_vars

(***************************************************************************)
(* fixme/route_sbend.py: two straights, the second dy above the first and  *)
(* length + dy to its right, and a route between their facing ports.       *)
(***************************************************************************)
SbendLength == 10

DyChoices == {0, 4, 8, 10, 12, 20}

RadiusChoices == {2, 5, 6}

\* The radius route_manhattan takes when it is given none.
DefaultRadius == StripRadius

\* c1 = c << straight(length); c2 = c << straight(length); c2.y = dy;
\* c2.movex(length + dy): c with the two references, in the world ws the
\* straight was built in.
TwoStraights(ws, c, dy) ==
    add_ref(add_ref(c, ref(ws.ret, ws.uid + 1)),
            move(move(ref(ws.ret, ws.uid + 2), <<0, dy>>),
                 <<SbendLength + dy, 0>>))

PlaceStraights(dy) ==
    /\ ncalls < MaxCalls
    /\ top.refs = <<>>
    /\ routes = NoRoutes
    /\ LET ws == straight(ThisWorld, SbendLength)
       IN  /\ Called("straight", [length |-> SbendLength],
                     [ws EXCEPT !.uid = @ + 2])
           /\ top' = TwoStraights(ws, top, dy)
    /\ UNCHANGED <<routes, fixture, disk, sim>>

\* A slip: the radius is not passed on, and the router takes its default.
RouteBetweenDefaultRadius(w, c, radius) ==
    route_manhattan(w, DictGet(RefPorts(w.comps, c.refs[1]), "E0"),
                    DictGet(RefPorts(w.comps, c.refs[2]), "W0"), DefaultRadius)

\* route_manhattan(input_port=c1.ports["E0"], output_port=c2.ports["W0"],
\* radius=radius)
RouteBetween(w, c, radius) ==
    route_manhattan(w, DictGet(RefPorts(w.comps, c.refs[1]), "E0"),
                    DictGet(RefPorts(w.comps, c.refs[2]), "W0"), radius)

\* What the call left: the world, the Route and the record of the call.
RouteCalled(res, radius) ==
    /\ Commit(res.w)
    /\ routes' = res.routes
    /\ last' = [call |-> [op |-> "route_manhattan", args |-> [radius |-> radius]],
                err |-> res.w.err, ret |-> res.w.ret, before |-> Before]

CallRouteManhattan(radius) ==
    /\ ncalls < MaxCalls
    /\ Len(top.refs) >= 2
    /\ RouteCalled(RouteBetween(ThisWorld, top, radius), radius)
    /\ ncalls' = ncalls + 1
    /\ UNCHANGED <<top, hist, fixture, disk, sim>>

NextSbend ==
    \/ \E dy \in DyChoices : PlaceStraights(dy)
    \/ \E r \in RadiusChoices : CallRouteManhattan(r)
    \/ AddRoutes

SpecSbend == Init /\ [][NextSbend]_vars

(***************************************************************************)
(* The scripts that write and read a file (test_read_gds): _write builds a *)
(* Component with a factory and writes it to gdspath; the tests read       *)
(* gdspath back with from_gds and compare.                                 *)
(***************************************************************************)
GdsCalls ==
    {[f |-> "straight", args |-> [length |-> 1]],
     [f |-> "straight", args |-> [length |-> 10]],
     [f |-> "fiber_array",
      args |-> [n |-> 2, pitch |-> 6, core_diameter |-> 2,
                cladding_diameter |-> 4]],
     [f |-> "fiber_array",
      args |-> [n |-> 1, pitch |-> 6, core_diameter |-> 2,
                cladding_diameter |-> 4]]}

\* c1 = gf.components.straight(length=1.234), or another factory.
BuildForGds(w, call) ==
    IF call.f = "straight" THEN straight(w, call.args.length)
    ELSE fiber_array(w, call.args.n, call.args.pitch,
                     call.args.core_diameter, call.args.cladding_diameter)

\* c1.write_gds(gdspath=gdspath): the file without its metadata.
WriteWithoutMetadata(w, id) == write_gds(w, id)

\* c1.write_gds_with_metadata(gdspath=gdspath)
WriteComponent(w, id) == write_gds_with_metadata(w, id)

\* The file at gdspath after _write, with the call that built what it holds.
Written(wb, call) ==
    IF Ok(wb) THEN [file |-> WriteComponent(wb, wb.ret), call |-> call]
    ELSE disk

\* _write(): build c1 and write it.
WriteGds(call) ==
    /\ ncalls < MaxCalls
    /\ Called("_write", call, BuildForGds(ThisWorld, call))
    /\ disk' = Written(BuildForGds(ThisWorld, call), call)
    /\ UNCHANGED <<top, routes, fixture, sim>>

\* What a test keeps of a read: the instance, its geometry hash and the
\* file it came from.
ReadOut(wr) ==
    IF Ok(wr)
    THEN [ret |-> wr.ret, hash |-> hash_geometry(wr, wr.ret), file |-> disk]
    ELSE [ret |-> 0]

ReadCalled(wr) ==
    /\ Commit(wr)
    /\ last' = [call |-> [op |-> "from_gds", args |-> <<>>], err |-> wr.err,
                ret |-> wr.ret, before |-> Before]
    /\ hist' = Append(hist, [call |-> [op |-> "from_gds", args |-> <<>>],
                             err |-> wr.err, out |-> ReadOut(wr)])

\* c = gf.read.from_gds(gdspath)
ReadGds ==
    /\ ncalls < MaxCalls
    /\ ReadCalled(from_gds(ThisWorld, IF disk = NoFile THEN NoFile ELSE disk.file))
    /\ ncalls' = ncalls + 1
    /\ UNCHANGED <<top, routes, fixture, disk, sim>>

NextGds ==
    \/ \E call \in GdsCalls : WriteGds(call)
    \/ ReadGds

SpecGds == Init /\ [][NextGds]_vars

(***************************************************************************)
(* A script that calls straight_heater_connector on two heater ports it    *)
(* holds.  A port's orientation is normalised when the Port is made; an    *)
(* assignment to port.orientation, as on lines 289-290, stores the value   *)
(* as it is given.                                                         *)
(***************************************************************************)
\* A heater port at height y whose orientation was then assigned.
HeaterPort(name, y, orientation) ==
    [Port(name, <<0, y>>, 0, 2, HEATER, "optical")
         EXCEPT !.orientation = orientation]

ConnectorCalls ==
    {[heater_ports |-> <<HeaterPort("HBE0", -3, o[1]), HeaterPort("HTE0", 3, o[2])>>,
      port_orientation |-> None] :
        o \in {<<0, 0>>, <<180, 180>>, <<0, 360>>, <<360, 360>>, <<90, 90>>,
               <<270, 270>>, <<0, 180>>}}
    \cup {[heater_ports |-> <<HeaterPort("HBE0", -3, 0)>>,
           port_orientation |-> None],
          [heater_ports |-> <<HeaterPort("HBE0", -3, 0), HeaterPort("HTE0", 3, 0),
                              HeaterPort("HTW0", 3, 0)>>,
           port_orientation |-> None],
          [heater_ports |-> <<HeaterPort("HBE0", -3, 0), HeaterPort("HTE0", 3, 0)>>,
           port_orientation |-> 90]}

\* connector(heater_ports=[...], port_orientation=...)
CallConnector(a) ==
    /\ ncalls < MaxCalls
    /\ Called("straight_heater_connector", a,
              straight_heater_connector(ThisWorld, a.heater_ports, TlmLayers,
                                        10, a.port_orientation))
    /\ UNCHANGED <<top, routes, fixture, disk, sim>>

NextConnector == \E a \in ConnectorCalls : CallConnector(a)

SpecConnector == Init /\ [][NextConnector]_vars

(***************************************************************************)
(* A script that builds Components and asks for their Simulation, as the   *)
(* docstring of get_simulation does (c = bend_circular(); get_simulation). *)
(***************************************************************************)
SimBends == {<<"bend_circular", 90>>, <<"bend_euler", 180>>}

SimSources == {"W0", "N0", "E9"}

SimDistances == {0, 2}

\* sim = gm.get_simulation(c, port_source_name=..., distance_source_to_monitors=...)
CallGetSimulation(id, port_source_name, distance) ==
    /\ ncalls < MaxCalls
    /\ id \in 1..Len(comps)
    /\ LET res == get_simulation(ThisWorld, id, port_source_name, distance)
       IN  /\ sim' = res.sim
           /\ last' = [call |-> [op |-> "get_simulation",
                                 args |-> [component |-> id,
                                           port_source_name |-> port_source_name,
                                           distance_source_to_monitors |-> distance]],
                       err |-> res.w.err, ret |-> 0, before |-> Before]
    /\ ncalls' = ncalls + 1
    /\ UNCHANGED <<comps, cache, uid, top, routes, hist, fixture, disk>>

NextSim ==
    \/ \E b \in SimBends : CallBend(b[1], b[2], StripRadius)
    \/ \E a \in Coupler90Args : CallCoupler90(a)
    \/ \E a \in TriangleArgs : CallTriangle(a)
    \/ \E id \in 1..(3 * MaxCalls) : \E n \in SimSources : \E d \in SimDistances :
          CallGetSimulation(id, n, d)

SpecSim == Init /\ [][NextSim]_vars

(***************************************************************************)
(* Properties of get_routes_bend180.                                       *)
(***************************************************************************)
NPorts == Len(PortList(fixture))

Routed == routes # NoRoutes

LastIsRoutes == last.call.op = "get_routes_bend180"

\* C1: the Routes returned for n input ports, a list or a dict, n = 0
\* included, holds exactly n references and exactly n output ports, keyed
\* "0" .. "n-1".
C1_OnePerPort ==
    Routed =>
        /\ Len(routes.references) = NPorts
        /\ Len(routes.ports) = NPorts
        /\ Keys(routes.ports) = {ToString(i) : i \in 0..(NPorts - 1)}

C1_Witness == Routed /\ NPorts = MaxPorts /\ fixture.isdict

C1_WitnessEmpty == Routed /\ NPorts = 0

\* A port of a reference sits on a destination port, facing it.
Joined(p, q) ==
    /\ p.midpoint = q.midpoint
    /\ p.orientation = (q.orientation + 180) % 360

\* C2: the output port under key "i" is the W1 port of the reference whose
\* W0 port was connected to the i-th input port, i counting positions of
\* the list or insertion positions of the dict (whose keys play no role),
\* and no two input ports share a reference.
C2_IndexedByPosition ==
    Routed =>
        /\ \A i \in 1..NPorts :
              /\ i <= Len(routes.references) /\ i <= Len(routes.ports)
              /\ routes.ports[i].k = ToString(i - 1)
              /\ routes.ports[i].v =
                     DictGet(RefPorts(comps, routes.references[i]), "W1")
              /\ Joined(DictGet(RefPorts(comps, routes.references[i]), "W0"),
                        PortList(fixture)[i])
        /\ \A i, j \in 1..Len(routes.references) :
              routes.references[i].uid = routes.references[j].uid => i = j

\* A dict of two different ports, whose keys run against the positions.
C2_Witness ==
    /\ Routed
    /\ fixture.isdict
    /\ NPorts = 2
    /\ fixture.items[1].k = "1"
    /\ fixture.items[1].v # fixture.items[2].v

\* C3: lengths has one entry per input port, each the length of the one
\* bend built for the call, whatever port the bend was attached to.
C3_LengthsAreBendLength ==
    (LastIsRoutes /\ last.err = "ok") =>
        /\ Len(routes.lengths) = NPorts
        /\ \A i \in 1..Len(routes.lengths) :
              routes.lengths[i] = comps[last.ret].length
        /\ \A i \in 1..Len(routes.references) :
              routes.references[i].child = last.ret

C3_Witness ==
    /\ LastIsRoutes /\ last.err = "ok"
    /\ NPorts = 2
    /\ PortList(fixture)[1].orientation # PortList(fixture)[2].orientation

\* C4: two calls of get_routes_bend180 with the same ports, bend factory
\* and bend settings return the same index-to-port mapping and the same
\* lengths, whatever was called in between.
C4_Deterministic ==
    \A i, j \in 1..Len(hist) :
        (hist[i].call.op = "get_routes_bend180" /\ hist[i].call = hist[j].call)
            => (hist[i].err = hist[j].err /\ hist[i].out = hist[j].out)

C4_Witness ==
    \E i, j, k \in 1..Len(hist) :
        /\ i < j /\ j < k
        /\ hist[i].call.op = "get_routes_bend180"
        /\ hist[i].call = hist[k].call
        /\ hist[j].call # hist[i].call
        /\ hist[i].err = "ok"
        /\ NPorts > 0

RoutesFailed == LastIsRoutes /\ last.err # "ok"

\* C10 as claimed: a failed get_routes_bend180 returns no Routes, adds no
\* reference to the enclosing Component and leaves no Component of the
\* failed call in the factory cache.
C10_NothingLeftBehind ==
    RoutesFailed =>
        /\ routes = NoRoutes
        /\ top = last.before.top
        /\ cache = last.before.cache

TheBendKey ==
    [f |-> last.call.args.bend_factory,
     args |-> [angle |-> 180, radius |-> last.call.args.radius]]

\* C10 as amended: a failed get_routes_bend180 returns no Routes and adds
\* no reference to the enclosing Component; the cache gains nothing when
\* the bend factory failed, and at most the finished bend when a connect
\* failed.
C10_OnlyTheBendIsKept ==
    RoutesFailed =>
        /\ routes = NoRoutes
        /\ top = last.before.top
        /\ \/ cache = last.before.cache
           \/ /\ last.err # "InvalidParameterError"
              /\ cache = Append(last.before.cache,
                                [k |-> TheBendKey, v |-> Len(comps)])
              /\ comps = Append(last.before.comps, comps[Len(comps)])
              /\ Keys(comps[Len(comps)].ports) = {"W0", "W1"}

\* The connect of the second of two ports failed, after the bend was built.
C10_Witness ==
    /\ RoutesFailed
    /\ last.err = "ValueError"
    /\ NPorts = 2
    /\ IsPort(PortList(fixture)[1])
    /\ cache # last.before.cache

(***************************************************************************)
(* Properties of the factories.                                            *)
(***************************************************************************)
Factories ==
    {"triangle", "heater", "fiber_array", "coupler90", "hline",
     "straight_heater", "straight_with_heater"}

FactoryCall(i) == hist[i].call.op \in Factories /\ hist[i].err = "ok"

\* C5: after any sequence of calls of cell-decorated factories, two calls
\* of the same factory with equal parameter values return the same cached
\* instance, and two calls that differ in a parameter value (or in the
\* factory) return different instances.
C5_Memoized ==
    \A i, j \in 1..Len(hist) :
        (FactoryCall(i) /\ FactoryCall(j)) =>
            /\ (hist[i].call = hist[j].call) <=> (hist[i].out.ret = hist[j].out.ret)
            /\ Cached(ThisWorld, [f |-> hist[i].call.op, args |-> hist[i].call.args])
            /\ DictGet(cache, [f |-> hist[i].call.op, args |-> hist[i].call.args])
                   = hist[i].out.ret

\* The same call twice, with a call of the same factory that differs in one
\* parameter in between.
C5_Witness ==
    /\ Len(hist) = 3
    /\ \A i \in 1..3 : FactoryCall(i) /\ hist[i].call.op = hist[1].call.op
    /\ hist[1].call.op \in {"triangle", "coupler90"}
    /\ hist[1].call = hist[3].call
    /\ hist[2].call # hist[1].call

\* A negative length, radius or width among the parameters of a call.
NegativeSize(call) ==
    CASE call.op = "triangle" -> call.args.x < 0 \/ call.args.y < 0
      [] call.op = "heater" -> call.args.length < 0 \/ call.args.width < 0
      [] call.op = "fiber_array" -> call.args.core_diameter < 0
      [] OTHER -> FALSE

\* C9 as claimed: a primitive factory called with a negative length, radius
\* or width fails with an InvalidParameterError and returns no Component.
C9_NegativeIsRejected ==
    NegativeSize(last.call) =>
        /\ last.err = "InvalidParameterError"
        /\ last.ret = 0
        /\ comps = last.before.comps

EmptyWorld == World(<<>>, <<>>, 0)

\* What the factory of a cache key builds when called alone, first.
FreshWorld(k) ==
    CASE k.f = "hline" ->
             hline(EmptyWorld, k.args.length, k.args.width, k.args.layer)
      [] k.f = "straight" -> straight(EmptyWorld, k.args.length)
      [] k.f \in {"bend_euler", "bend_circular"} ->
             BendFactory(EmptyWorld, k.f, k.args.angle, k.args.radius)
      [] k.f = "tlm" ->
             tlm(EmptyWorld, k.args.width, k.args.height, k.args.layers)
      [] k.f = "heater" ->
             heater(EmptyWorld, k.args.length, k.args.width, k.args.layer)
      [] k.f = "straight_heater" ->
             straight_heater(EmptyWorld, k.args.length, k.args.heater_width,
                             k.args.heater_spacing, k.args.sstw,
                             k.args.trench_width)
      [] k.f = "straight_heater_connector" ->
             straight_heater_connector(EmptyWorld, k.args.heater_ports,
                                       k.args.tlm_layers, k.args.port_width,
                                       k.args.port_orientation)

Fresh(k) == FreshWorld(k).comps[FreshWorld(k).ret]

\* The factories whose Components the other factories place as children.
ChildFactories ==
    {"hline", "straight", "bend_euler", "bend_circular", "tlm", "heater",
     "straight_heater", "straight_heater_connector"}

\* C6: a Component returned by its factory is never mutated by a parent
\* that uses it: whatever was built on it since (references added, moved,
\* connected and absorbed, ports re-exposed, retagged and overridden), its
\* own polygons and ports are those its factory built.
C6_ChildNeverMutated ==
    \A i \in 1..Len(cache) :
        cache[i].k.f \in ChildFactories =>
            /\ comps[cache[i].v].polygons = Fresh(cache[i].k).polygons
            /\ comps[cache[i].v].ports = Fresh(cache[i].k).ports

\* A heater built on an hline that was in the cache before, and a
\* straight_with_heater built on it: the heater's ports are retagged, the
\* connectors' ports are overridden.
C6_Witness ==
    /\ last.call.op = "straight_with_heater" /\ last.err = "ok"
    /\ \E i, j \in 1..Len(cache) :
          /\ cache[i].k.f = "hline" /\ cache[j].k.f = "heater"
          /\ cache[i].k.args = cache[j].k.args
          /\ cache[i].v <= Len(last.before.comps)
          /\ \A p \in Range(Values(comps[cache[i].v].ports)) : p.port_type = "optical"
          /\ \A p \in Range(Values(comps[cache[j].v].ports)) : p.port_type = "heater"
    /\ \E p \in Range(Values(comps[last.ret].ports)) :
          p.port_type = "dc" /\ p.orientation = 90

PortNamesDistinct(c) ==
    \A i, j \in 1..Len(c.ports) :
        (c.ports[i].k = c.ports[j].k \/ c.ports[i].v.name = c.ports[j].v.name)
            => i = j

Composites == {"straight_heater", "straight_with_heater"}

\* C7: add_port with a name the Component already has fails with a
\* DuplicateNameError and leaves the port map as it was; the port names of
\* a Component built by straight_heater or straight_with_heater are
\* pairwise distinct.
C7_PortNamesAreUnique ==
    /\ (last.call.op = "add_port"
            /\ last.call.args.name \in Keys(last.before.top.ports)) =>
           (last.err = "DuplicateNameError" /\ top.ports = last.before.top.ports)
    /\ PortNamesDistinct(top)
    /\ \A i \in 1..Len(cache) :
          cache[i].k.f \in Composites => PortNamesDistinct(comps[cache[i].v])

C7_Witness ==
    /\ last.call.op = "add_port"
    /\ last.err = "DuplicateNameError"
    /\ Len(top.ports) = 1
    /\ \E i \in 1..Len(cache) :
          /\ cache[i].k.f = "straight_with_heater"
          /\ Len(comps[cache[i].v].ports) = 8

SamePlace(p, q) == p.midpoint = q.midpoint /\ p.orientation = q.orientation

\* C8: an absorb is geometry-preserving: the flattened polygon set of the
\* parent after it is the set before it, the absorbed reference is no
\* longer a child of the parent, and the ports coupler90 reads from its
\* references after the absorbs are where they were before them.
C8_AbsorbPreservesGeometry ==
    /\ \A i \in 1..Len(comps) : \A n \in 1..Len(comps[i].absorbed) :
          /\ comps[i].absorbed[n].before = comps[i].absorbed[n].after
          /\ comps[i].absorbed[n].uid \notin comps[i].absorbed[n].children
    /\ \A i \in 1..Len(cache) :
          cache[i].k.f = "coupler90" =>
              LET c == comps[cache[i].v]
              IN  /\ Len(c.absorbed) = 2
                  /\ SamePlace(DictGet(c.ports, "E0"),
                               DictGet(c.absorbed[1].ports, "E0"))
                  /\ SamePlace(DictGet(c.ports, "N0"),
                               DictGet(c.absorbed[2].ports, "N0"))
                  /\ SamePlace(DictGet(c.ports, "W0"),
                               DictGet(c.absorbed[1].ports, "W0"))
                  /\ SamePlace(DictGet(c.ports, "W1"),
                               DictGet(c.absorbed[2].ports, "W0"))

\* A coupler90 and a straight_heater with trenches, whose references were
\* absorbed away from the origin.
C8_Witness ==
    /\ \E i \in 1..Len(cache) :
          /\ cache[i].k.f = "coupler90"
          /\ DictGet(comps[cache[i].v].ports, "W1").midpoint[2] > 0
          /\ comps[cache[i].v].refs = <<>>
    /\ \E i \in 1..Len(cache) :
          /\ cache[i].k.f = "straight_heater"
          /\ Len(comps[cache[i].v].absorbed) = 7
          /\ Cardinality(Flat(comps, comps[cache[i].v])) = 7

(***************************************************************************)
(* Properties of route_manhattan.                                          *)
(***************************************************************************)
LastIsRoute == last.call.op = "route_manhattan"

\* The ports the script routes between.
SbendIn == DictGet(RefPorts(comps, top.refs[1]), "E0")

SbendOut == DictGet(RefPorts(comps, top.refs[2]), "W0")

\* The ports leave too little room for two 90 degree bends of the radius:
\* the output port is off the input port's axis by less than two radii, or
\* ahead of it by less than two radii.
TooLittleRoom(radius) ==
    LET dx == SbendOut.midpoint[1] - SbendIn.midpoint[1]
        dy == SbendOut.midpoint[2] - SbendIn.midpoint[2]
    IN  dy # 0 /\ (dy < 2 * radius \/ dx < 2 * radius)

RefYs(heap, r) ==
    UNION {{poly.points[i][2] : i \in 1..Len(poly.points)} :
           poly \in Range(TransformAll(r, Flatten(heap, heap[r.child])))}

\* The bounding boxes of two references share an area.
Overlap(heap, r1, r2) ==
    /\ Max({Min(RefXs(heap, r1)), Min(RefXs(heap, r2))})
           < Min({Max(RefXs(heap, r1)), Max(RefXs(heap, r2))})
    /\ Max({Min(RefYs(heap, r1)), Min(RefYs(heap, r2))})
           < Min({Max(RefYs(heap, r1)), Max(RefYs(heap, r2))})

C11_WitnessFits ==
    /\ LastIsRoute /\ last.err = "ok"
    /\ Len(routes.references) = 5

(***************************************************************************)
(* Properties of the write/read round trip.                                *)
(***************************************************************************)
IsRead(h) == h.call.op = "from_gds" /\ h.err = "ok"

\* c1 of test_read_gds_equivalent: the factory called again with the
\* parameters of _write returns the cached instance.
WrittenInstance == DictGet(cache, [f |-> disk.call.f, args |-> disk.call.args])

Primitives ==
    {"triangle", "heater", "hline", "straight", "circle", "bend_euler",
     "bend_circular", "coupler90"}

\* Physical parameters that are valid: positive sizes.
ValidParameters(key) ==
    CASE key.f = "triangle" ->
            key.args.x > 0 /\ key.args.y > 0 /\ key.args.xtop >= 0
      [] key.f \in {"heater", "hline"} ->
            key.args.length > 0 /\ key.args.width > 0
      [] key.f = "straight" -> key.args.length > 0
      [] key.f = "circle" -> key.args.radius > 0
      [] key.f \in {"bend_euler", "bend_circular"} -> key.args.radius > 0
      [] key.f = "coupler90" -> key.args.gap > 0 /\ key.args.radius > 0
      [] OTHER -> FALSE

\* The number of ports each factory documents.
DocumentedPorts(key) ==
    CASE key.f \in {"triangle", "circle"} -> 0
      [] key.f = "coupler90" -> 4
      [] OTHER -> 2

PositiveArea(c) ==
    /\ c.polygons # <<>>
    /\ \A n \in 1..Len(c.polygons) : Area2(c.polygons[n].points) > 0

\* The port p of a child, seen under the name and at the height the parent
\* gives it.
Raised(p, name, dy) ==
    [p EXCEPT !.name = name, !.midpoint = <<@[1], @[2] + dy>>]

\* The bend and the straight coupler90 builds for a call with this key.
BendOf(key) ==
    comps[DictGet(cache, [f |-> key.args.bend,
                          args |-> [angle |-> 90, radius |-> StripRadius]])]

StraightOf(key) ==
    comps[DictGet(cache,
                  [f |-> "straight",
                   args |-> [length |->
                       DictGet(BendOf(key).ports, "N0").midpoint[1]
                           - DictGet(BendOf(key).ports, "W0").midpoint[1]]])]

Coupler90Ports(key, c) ==
    /\ KeySeq(c.ports) = <<"E0", "N0", "W0", "W1">>
    /\ DictGet(c.ports, "E0") = DictGet(StraightOf(key).ports, "E0")
    /\ DictGet(c.ports, "W0") = DictGet(StraightOf(key).ports, "W0")
    /\ DictGet(c.ports, "N0")
           = Raised(DictGet(BendOf(key).ports, "N0"), "N0",
                    key.args.gap + StripWidth)
    /\ DictGet(c.ports, "W1")
           = Raised(DictGet(BendOf(key).ports, "W0"), "W1",
                    key.args.gap + StripWidth)
    /\ DictGet(c.ports, "W1").midpoint[1] = DictGet(c.ports, "W0").midpoint[1]
    /\ DictGet(c.ports, "W1").midpoint[2]
           = DictGet(c.ports, "W0").midpoint[2] + key.args.gap + StripWidth

\* C13: the Component a primitive factory returns for valid parameters has
\* polygons, each of positive area, and the number of ports the factory
\* documents; coupler90 has exactly the ports E0, N0, W0 and W1, E0 and W0
\* being the straight's ports and N0 and W1 the bend's N0 and W0, and W1 is
\* gap + width above W0.
C13_PrimitiveOutputs ==
    \A i \in 1..Len(cache) :
        (cache[i].k.f \in Primitives /\ ValidParameters(cache[i].k)) =>
            /\ PositiveArea(comps[cache[i].v])
            /\ Len(comps[cache[i].v].ports) = DocumentedPorts(cache[i].k)
            /\ cache[i].k.f = "coupler90" =>
                   Coupler90Ports(cache[i].k, comps[cache[i].v])

\* A coupler90 of gap 4 and a triangle with a slanted side were built.
C13_Witness ==
    /\ \E i \in 1..Len(cache) :
          /\ cache[i].k.f = "coupler90"
          /\ cache[i].k.args.gap = 4
          /\ DictGet(comps[cache[i].v].ports, "W1").midpoint = <<0, 6>>
    /\ \E i \in 1..Len(cache) :
          /\ cache[i].k.f = "triangle"
          /\ cache[i].k.args.xtop = 2
          /\ ValidParameters(cache[i].k)

(***************************************************************************)
(* Properties of straight_heater_connector.                                *)
(***************************************************************************)
\* Two ports face the same direction when their angles are equal modulo 360.
SameDirection(p, q) == p.orientation % 360 = q.orientation % 360

ConnectorInputOk(heater_ports) ==
    /\ Len(heater_ports) = 2
    /\ SameDirection(heater_ports[1], heater_ports[2])
    /\ heater_ports[1].orientation % 360 \in {0, 180}

\* C14 as claimed: straight_heater_connector builds a connector exactly when
\* it is given two heater ports that face the same direction, whatever the
\* representation of their angles, and that direction is 0 or 180; every
\* other input fails with an assertion error and leaves no Component.
C14_SameDirectionIsAccepted ==
    last.call.op = "straight_heater_connector" =>
        /\ last.err = "ok" <=> ConnectorInputOk(last.call.args.heater_ports)
        /\ last.err # "ok" =>
              /\ last.err = "AssertionError"
              /\ last.ret = 0
              /\ comps = last.before.comps

(***************************************************************************)
(* Properties of straight_with_heater.                                     *)
(***************************************************************************)
\* p is the port q of a child seen through the reference r, but for its
\* name and its orientation.
ReExposed(p, r, q) ==
    [p EXCEPT !.name = "", !.orientation = 0]
        = [TransformPort(r, q) EXCEPT !.name = "", !.orientation = 0]

WithHeaterPorts(a, c) ==
    LET inner == comps[c.refs[1].child]
        n == Len(inner.ports)
        connector1 == comps[c.refs[2].child]
        connector2 == comps[c.refs[3].child]
    IN  /\ Len(c.ports) = n + 2
        /\ c.ports[n + 1].v.orientation = a.port_orientation_input
        /\ c.ports[n + 2].v.orientation = a.port_orientation_output
        /\ ReExposed(c.ports[n + 1].v, c.refs[2], DictGet(connector1.ports, "0"))
        /\ ReExposed(c.ports[n + 2].v, c.refs[3], DictGet(connector2.ports, "0"))
        /\ DictGet(connector1.ports, "0").orientation = 0
        /\ DictGet(connector2.ports, "0").orientation = 180
        /\ \A j \in 1..n :
              /\ ReExposed(c.ports[j].v, c.refs[1], inner.ports[j].v)
              /\ c.ports[j].v.orientation = inner.ports[j].v.orientation

\* C15: in the Component straight_with_heater returns, the port re-exposed
\* from the first connector has orientation port_orientation_input and the
\* one from the second connector port_orientation_output, while the
\* connectors' own ports keep the orientation they were built with (0 and
\* 180), and every port of the inner straight_heater is re-exposed where it
\* is with its orientation unchanged.
C15_OrientationOverride ==
    \A i \in 1..Len(cache) :
        cache[i].k.f = "straight_with_heater" =>
            WithHeaterPorts(cache[i].k.args, comps[cache[i].v])

\* A straight_with_heater whose two orientations differ from each other and
\* from those of the connectors' own ports.
C15_Witness ==
    \E i \in 1..Len(cache) :
        /\ cache[i].k.f = "straight_with_heater"
        /\ cache[i].k.args.port_orientation_input = 90
        /\ cache[i].k.args.port_orientation_output = 270
        /\ Len(comps[cache[i].v].ports) = 8
        /\ comps[cache[i].v].ports[7].v.orientation = 90
        /\ comps[cache[i].v].ports[8].v.orientation = 270

(***************************************************************************)
(* Properties of get_simulation.                                           *)
(***************************************************************************)
\* The point a distance inwards from a port's centre: against the direction
\* the port faces.
Inwards(port, distance) ==
    Sub(port.midpoint, Rot(<<distance, 0>>, port.orientation))

\* C16 as claimed: the Simulation has one mode monitor for each port of the
\* component, under the port's name; the monitor of the source port is
\* centred distance_source_to_monitors inwards from the port's centre, and
\* the monitor of every other port on its port's centre.
C16_SourceMonitorIsInwards ==
    sim # NoSim =>
        /\ Len(sim.monitors) = Len(sim.component.ports)
        /\ Keys(sim.monitors) = Keys(sim.component.ports)
        /\ \A n \in Keys(sim.component.ports) :
              DictGet(sim.monitors, n).center =
                  IF n = sim.port_source_name
                  THEN Inwards(DictGet(sim.component.ports, n),
                               sim.distance_source_to_monitors)
                  ELSE DictGet(sim.component.ports, n).midpoint

(***************************************************************************)
(* Properties of fiber_array.                                              *)
(***************************************************************************)
FiberPorts(a, c) ==
    /\ Len(c.refs) = 2 * a.n
    /\ KeySeq(c.ports) = [j \in 1..a.n |-> "F" \o ToString(j - 1)]
    /\ \A j \in 1..Len(c.ports) :
          /\ c.ports[j].v.width = a.core_diameter
          /\ c.ports[j].v.orientation = 0
          /\ c.ports[j].v.midpoint = <<(j - 1) * a.pitch, 0>>

\* C17 as claimed: fiber_array(n, pitch) returns a Component with 2n child
\* references and the n ports F0 .. F(n-1), each of width core_diameter and
\* orientation 0, the port Fi at the centre of the i-th core, x = i * pitch.
C17_PortsAtFiberCentres ==
    \A i \in 1..Len(cache) :
        (cache[i].k.f = "fiber_array" /\ cache[i].k.args.n >= 1
             /\ cache[i].k.args.core_diameter > 0) =>
            FiberPorts(cache[i].k.args, comps[cache[i].v])

=============================================================================
